---- MODULE Spec2Model ----
(***************************************************************************)
(* A model of utils_nlp/models/transformers/question_answering.py: the     *)
(* example builder, the span tokenizer, the feature assembler, the         *)
(* dataloader loop that drives them, the two answer aggregators and the    *)
(* text reconstructor.                                                     *)
(*                                                                         *)
(* Text is a sequence of one-character strings, so "ab c" is written       *)
(* <<"a","b"," ","c">>.  A token is such a sequence too; the special       *)
(* tokens [CLS] and [SEP] are one-element sequences.  Python's None is     *)
(* <<>> where a number may stand (NoneVal / Some), and a record with       *)
(* kind "None" where an object may stand.  Indices keep Python's 0-based   *)
(* values; only the access into a TLA+ sequence adds one.                  *)
(***************************************************************************)
EXTENDS Integers, Sequences, FiniteSets, TLC

VARIABLES
    dl_pc,            \* get_qa_dataloader: "idle", "loop", "returned", "raised", "hung"
    dl_exc,           \* the exception that ended the invocation, "" when none
    cfg,              \* the arguments of the running invocation
    qa_dataset,       \* the QADataset handed to it
    idx,              \* position of the for loop over qa_dataset (1-based)
    unique_id_cur,
    unique_id_all,
    features,
    qa_examples,
    qa_examples_json,
    features_json,
    qa_example_cur,   \* result of the last _create_qa_example call
    features_cur,     \* result of the last _create_qa_features call
    invocation,       \* how many invocations were started
    emitted,          \* history: <<invocation, unique_id>> of every feature produced
    ft_pc,            \* _get_final_text: "call" before it runs, "returned" after
    ft_args,          \* its arguments pred_text, orig_text, do_lower_case
    ft_out,           \* what it returned, and through which return statement
    pp_pc,            \* postprocess_*_answer: "idle", "loop", "returned", "raised"
    pp_exc,           \* the exception that ended the call, "" when none
    pp_args,          \* which aggregator runs, and its arguments
    examples_all,     \* the examples file as read back
    features_all,     \* the features file as read back
    results,          \* the model results handed in (fixed as the loop reaches them)
    pp_i,             \* position of the for loop over examples_all (1-based)
    all_predictions,
    all_probs,
    all_nbest_json,
    scores_diff_json,
    pp_last,          \* the locals of the last loop iteration
    pp_run,           \* 1 in the first call, 2 in the call repeated on the same inputs
    first_predictions, \* all_predictions of the first call, kept for the second
    fn_pc,            \* a helper called on its own: "idle", "call", then how it ended
    fn_args,          \* its arguments
    fn_out            \* what it returned or raised

dl_vars == <<dl_pc, dl_exc, cfg, qa_dataset, idx, unique_id_cur, unique_id_all,
             features, qa_examples, qa_examples_json, features_json,
             qa_example_cur, features_cur, invocation, emitted>>

ft_vars == <<ft_pc, ft_args, ft_out>>

pp_vars == <<pp_pc, pp_exc, pp_args, examples_all, features_all, results, pp_i,
             all_predictions, all_probs, all_nbest_json, scores_diff_json, pp_last,
             pp_run, first_predictions>>

fn_vars == <<fn_pc, fn_args, fn_out>>

------------------------------------------------------------------------------
(* Python values and sequence operations                                    *)

NoneVal == <<>>
Some(n) == <<n>>
IsNone(v) == v = <<>>

Raise(e) == [kind |-> "raise", exc |-> e]

Min(a, b) == IF a < b THEN a ELSE b
Max(a, b) == IF a > b THEN a ELSE b

\* s[i] with Python's negative indices; PyIndexOk is the IndexError test
PyIndexOk(s, i) == -Len(s) <= i /\ i < Len(s)
PyAt(s, i) == IF i >= 0 THEN s[i + 1] ELSE s[Len(s) + i + 1]

\* s[lo:hi]
PySlice(s, lo, hi) ==
    LET n == Len(s)
        l == IF lo < 0 THEN Max(n + lo, 0) ELSE Min(lo, n)
        h == IF hi < 0 THEN Max(n + hi, 0) ELSE Min(hi, n)
    IN IF l >= h THEN <<>> ELSE SubSeq(s, l + 1, h)

RECURSIVE Concat(_)
Concat(ss) == IF ss = <<>> THEN <<>> ELSE Head(ss) \o Concat(Tail(ss))

\* sep.join(ss)
RECURSIVE Join(_, _)
Join(sep, ss) ==
    IF ss = <<>> THEN <<>>
    ELSE IF Len(ss) = 1 THEN ss[1]
    ELSE ss[1] \o sep \o Join(sep, Tail(ss))

SP == <<" ">>

StartsAt(hay, needle, i) ==
    /\ i + Len(needle) <= Len(hay)
    /\ SubSeq(hay, i + 1, i + Len(needle)) = needle

\* hay.find(needle): the first 0-based offset, -1 when absent
Find(hay, needle) ==
    IF \E i \in 0..Len(hay) : StartsAt(hay, needle, i)
    THEN CHOOSE i \in 0..Len(hay) :
            /\ StartsAt(hay, needle, i)
            /\ \A j \in 0..(i - 1) : ~StartsAt(hay, needle, j)
    ELSE -1

\* text.replace(old, new), left to right, non-overlapping
RECURSIVE Replace(_, _, _)
Replace(text, old, new) ==
    IF text = <<>> THEN <<>>
    ELSE IF StartsAt(text, old, 0)
         THEN new \o Replace(SubSeq(text, Len(old) + 1, Len(text)), old, new)
         ELSE <<Head(text)>> \o Replace(Tail(text), old, new)

\* the whitespace of str.split() and str.strip() over the model's alphabet
IsPySpace(c) == c \in {" ", "\t", "\r", "\n", "U+202F"}

RECURSIVE SplitLoop(_, _, _, _)
SplitLoop(text, i, toks, prev_space) ==
    IF i > Len(text) THEN toks
    ELSE LET c == text[i]
         IN IF IsPySpace(c) THEN SplitLoop(text, i + 1, toks, TRUE)
            ELSE IF prev_space
                 THEN SplitLoop(text, i + 1, Append(toks, <<c>>), FALSE)
                 ELSE SplitLoop(text, i + 1,
                                [toks EXCEPT ![Len(toks)] = @ \o <<c>>], FALSE)

\* pytorch_transformers.tokenization_bert.whitespace_tokenize: strip, then split
WhitespaceTokenize(text) == SplitLoop(text, 1, <<>>, TRUE)

\* " ".join(text.split()) after text.strip()
CleanWhitespace(text) == Join(SP, WhitespaceTokenize(text))

------------------------------------------------------------------------------
(* The tokenizers, as far as the pipeline uses them                         *)

Lower(c) == IF c = "A" THEN "a" ELSE IF c = "B" THEN "b" ELSE c
LowerText(t) == [i \in DOMAIN t |-> Lower(t[i])]

IsPunctuation(c) == c \in {",", "."}

\* BasicTokenizer._run_split_on_punc: every punctuation character is a token
RECURSIVE RunSplitOnPunc(_, _, _)
RunSplitOnPunc(chars, i, out) ==
    IF i > Len(chars) THEN out
    ELSE LET c == chars[i]
         IN IF IsPunctuation(c)
            THEN RunSplitOnPunc(chars, i + 1, Append(out, <<c>>))
            ELSE IF i > 1 /\ ~IsPunctuation(chars[i - 1])
                 THEN RunSplitOnPunc(chars, i + 1,
                                     [out EXCEPT ![Len(out)] = @ \o <<c>>])
                 ELSE RunSplitOnPunc(chars, i + 1, Append(out, <<c>>))

\* BasicTokenizer(do_lower_case).tokenize
BasicTokenize(text, do_lower_case) ==
    LET orig_tokens == WhitespaceTokenize(text)
        split(tok) == RunSplitOnPunc(IF do_lower_case THEN LowerText(tok) ELSE tok,
                                     1, <<>>)
        split_tokens == Concat([i \in DOMAIN orig_tokens |-> split(orig_tokens[i])])
    IN WhitespaceTokenize(Join(SP, split_tokens))

\* word pieces of at most two characters; a continuation piece carries "##"
RECURSIVE WordPiece(_, _)
WordPiece(chars, first) ==
    IF chars = <<>> THEN <<>>
    ELSE LET n == Min(2, Len(chars))
             piece == SubSeq(chars, 1, n)
         IN <<IF first THEN piece ELSE <<"#", "#">> \o piece>>
            \o WordPiece(SubSeq(chars, n + 1, Len(chars)), FALSE)

BertTokenize(text, do_lower_case) ==
    LET basic == BasicTokenize(text, do_lower_case)
    IN Concat([i \in DOMAIN basic |-> WordPiece(basic[i], TRUE)])

\* sentence pieces of at most two characters; "_" stands for U+2581, the
\* mark that opens a word
RECURSIVE SentencePiece(_, _)
SentencePiece(chars, first) ==
    IF chars = <<>> THEN <<>>
    ELSE LET n == Min(2, Len(chars))
             piece == SubSeq(chars, 1, n)
         IN <<IF first THEN <<"_">> \o piece ELSE piece>>
            \o SentencePiece(SubSeq(chars, n + 1, Len(chars)), FALSE)

XLNetTokenize(text, do_lower_case) ==
    LET words == WhitespaceTokenize(IF do_lower_case THEN LowerText(text) ELSE text)
    IN Concat([i \in DOMAIN words |-> SentencePiece(words[i], TRUE)])

\* tokenizer.tokenize of the tokenizer get_qa_dataloader builds for model_name
Tokenize(tokenizer, text) ==
    IF tokenizer.model_type = "bert"
    THEN BertTokenize(text, tokenizer.do_lower_case)
    ELSE XLNetTokenize(text, tokenizer.do_lower_case)

\* XLNetTokenizer.convert_tokens_to_string
ConvertTokensToString(tokens) == Replace(Concat(tokens), <<"_">>, SP)

\* tokenizer.convert_tokens_to_ids: a vocabulary lookup, one id per token
TokenId(tok) ==
    IF tok = <<"[CLS]">> THEN 101
    ELSE IF tok = <<"[SEP]">> THEN 102
    ELSE 1000 + Len(tok)
ConvertTokensToIds(tokens) == [i \in DOMAIN tokens |-> TokenId(tokens[i])]

------------------------------------------------------------------------------
(* _create_qa_example                                                       *)

IsWhitespace(c) == c \in {" ", "\t", "\r", "\n", "U+202F"}

\* the character loop with prev_is_whitespace never cleared
RECURSIVE ScanDocNoMerge(_, _, _, _, _)
ScanDocNoMerge(d_text, i, d_tokens, char_to_word_offset, prev_is_whitespace) ==
    IF i > Len(d_text)
    THEN [d_tokens |-> d_tokens, char_to_word_offset |-> char_to_word_offset]
    ELSE LET c == d_text[i]
             toks == IF IsWhitespace(c) THEN d_tokens ELSE Append(d_tokens, <<c>>)
         IN ScanDocNoMerge(d_text, i + 1, toks,
                           Append(char_to_word_offset, Len(toks) - 1), TRUE)

\* the character loop recording len(d_tokens) instead of len(d_tokens) - 1
RECURSIVE ScanDocOffByOne(_, _, _, _, _)
ScanDocOffByOne(d_text, i, d_tokens, char_to_word_offset, prev_is_whitespace) ==
    IF i > Len(d_text)
    THEN [d_tokens |-> d_tokens, char_to_word_offset |-> char_to_word_offset]
    ELSE LET c == d_text[i]
             toks == IF IsWhitespace(c) THEN d_tokens
                     ELSE IF prev_is_whitespace THEN Append(d_tokens, <<c>>)
                     ELSE [d_tokens EXCEPT ![Len(d_tokens)] = @ \o <<c>>]
         IN ScanDocOffByOne(d_text, i + 1, toks,
                            Append(char_to_word_offset, Len(toks)), IsWhitespace(c))

\* the character loop: d_tokens and char_to_word_offset
RECURSIVE ScanDoc(_, _, _, _, _)
ScanDoc(d_text, i, d_tokens, char_to_word_offset, prev_is_whitespace) ==
    IF i > Len(d_text)
    THEN [d_tokens |-> d_tokens, char_to_word_offset |-> char_to_word_offset]
    ELSE LET c == d_text[i]
             toks == IF IsWhitespace(c) THEN d_tokens
                     ELSE IF prev_is_whitespace THEN Append(d_tokens, <<c>>)
                     ELSE [d_tokens EXCEPT ![Len(d_tokens)] = @ \o <<c>>]
         IN ScanDoc(d_text, i + 1, toks,
                    Append(char_to_word_offset, Len(toks) - 1), IsWhitespace(c))

NoneExample == [kind |-> "None"]

\* the else of line 1157 attached to `if is_training` instead
CreateQaExampleElseMoved(qa_input, is_training) ==
    LET scan == ScanDoc(qa_input.doc_text, 1, <<>>, <<>>, TRUE)
        d_tokens == scan.d_tokens
        char_to_word_offset == scan.char_to_word_offset
        impossible == qa_input.is_impossible
        Example(a_text, start_position, end_position) ==
            [kind |-> "example",
             qa_id |-> qa_input.qa_id,
             doc_tokens |-> d_tokens,
             question_text |-> qa_input.question_text,
             orig_answer_text |-> a_text,
             start_position |-> start_position,
             end_position |-> end_position,
             is_impossible |-> impossible]
    IN IF qa_input.answer_is_list /\ Len(qa_input.answer_start) # 1
          /\ is_training /\ ~impossible
       THEN Raise("Exception")
       ELSE IF Len(qa_input.answer_start) = 0 \/ Len(qa_input.answer_text) = 0
       THEN Raise("IndexError")
       ELSE
       LET a_start == qa_input.answer_start[1]
           a_text == qa_input.answer_text[1]
           answer_length == Len(a_text)
       IN IF ~is_training THEN Example(a_text, Some(-1), Some(-1))
          ELSE IF impossible THEN Example(a_text, NoneVal, NoneVal)
          ELSE IF ~PyIndexOk(char_to_word_offset, a_start)
                  \/ ~PyIndexOk(char_to_word_offset, a_start + answer_length - 1)
          THEN Raise("IndexError")
          ELSE
          LET start_position == PyAt(char_to_word_offset, a_start)
              end_position == PyAt(char_to_word_offset, a_start + answer_length - 1)
              actual_text == Join(SP, PySlice(d_tokens, start_position, end_position + 1))
              cleaned_answer_text == Join(SP, WhitespaceTokenize(a_text))
          IN IF Find(actual_text, cleaned_answer_text) = -1
             THEN NoneExample
             ELSE Example(a_text, Some(start_position), Some(end_position))

\* A QAInput carries answer_start and answer_text as sequences: one element
\* when the column holds a scalar, the list itself when answer_is_list.
CreateQaExample(qa_input, is_training) ==
    LET scan == ScanDoc(qa_input.doc_text, 1, <<>>, <<>>, TRUE)
        d_tokens == scan.d_tokens
        char_to_word_offset == scan.char_to_word_offset
        impossible == qa_input.is_impossible
        Example(a_text, start_position, end_position) ==
            [kind |-> "example",
             qa_id |-> qa_input.qa_id,
             doc_tokens |-> d_tokens,
             question_text |-> qa_input.question_text,
             orig_answer_text |-> a_text,
             start_position |-> start_position,
             end_position |-> end_position,
             is_impossible |-> impossible]
    IN IF qa_input.answer_is_list /\ Len(qa_input.answer_start) # 1
          /\ is_training /\ ~impossible
       THEN Raise("Exception")
       ELSE IF Len(qa_input.answer_start) = 0 \/ Len(qa_input.answer_text) = 0
       THEN Raise("IndexError")
       ELSE
       LET a_start == qa_input.answer_start[1]
           a_text == qa_input.answer_text[1]
           answer_length == Len(a_text)
       IN IF ~is_training THEN Example(a_text, NoneVal, NoneVal)
          ELSE IF impossible THEN Example(a_text, Some(-1), Some(-1))
          ELSE IF ~PyIndexOk(char_to_word_offset, a_start)
                  \/ ~PyIndexOk(char_to_word_offset, a_start + answer_length - 1)
          THEN Raise("IndexError")
          ELSE
          LET start_position == PyAt(char_to_word_offset, a_start)
              end_position == PyAt(char_to_word_offset, a_start + answer_length - 1)
              actual_text == Join(SP, PySlice(d_tokens, start_position, end_position + 1))
              cleaned_answer_text == Join(SP, WhitespaceTokenize(a_text))
          IN IF Find(actual_text, cleaned_answer_text) = -1
             THEN NoneExample
             ELSE Example(a_text, Some(start_position), Some(end_position))

------------------------------------------------------------------------------
(* _create_qa_features                                                      *)

cls_token == <<"[CLS]">>
sep_token == <<"[SEP]">>

\* the loop over example.doc_tokens
RECURSIVE DocTokLoop(_, _, _, _, _, _)
DocTokLoop(tokenizer, doc_tokens, i, tok_to_orig_index, orig_to_tok_index, all_doc_tokens) ==
    IF i > Len(doc_tokens)
    THEN [tok_to_orig_index |-> tok_to_orig_index,
          orig_to_tok_index |-> orig_to_tok_index,
          all_doc_tokens |-> all_doc_tokens]
    ELSE LET sub_tokens == Tokenize(tokenizer, doc_tokens[i])
         IN DocTokLoop(tokenizer, doc_tokens, i + 1,
                       tok_to_orig_index \o [k \in 1..Len(sub_tokens) |-> i - 1],
                       Append(orig_to_tok_index, Len(all_doc_tokens)),
                       all_doc_tokens \o sub_tokens)

ImproveAnswerSpan(doc_tokens, input_start, input_end, tokenizer, orig_answer_text) ==
    LET tok_answer_text == Join(SP, Tokenize(tokenizer, orig_answer_text))
        Matches(s, e) == Join(SP, PySlice(doc_tokens, s, e + 1)) = tok_answer_text
        hits == {p \in (input_start..input_end) \X (input_start..input_end) :
                    p[2] >= p[1] /\ Matches(p[1], p[2])}
    IN IF hits = {} THEN <<input_start, input_end>>
       ELSE CHOOSE p \in hits :
               \A r \in hits : p[1] < r[1] \/ (p[1] = r[1] /\ p[2] >= r[2])

\* the span loop advancing by doc_stride without the min
RECURSIVE DocSpansLoopNoMin(_, _, _, _, _)
DocSpansLoopNoMin(n_doc, max_tokens_for_doc, doc_stride, start_offset, doc_spans) ==
    IF ~(start_offset < n_doc) THEN [kind |-> "list", doc_spans |-> doc_spans]
    ELSE LET rest == n_doc - start_offset
             length == IF rest > max_tokens_for_doc THEN max_tokens_for_doc ELSE rest
             spans == Append(doc_spans, [start |-> start_offset, length |-> length])
         IN IF start_offset + length = n_doc THEN [kind |-> "list", doc_spans |-> spans]
            ELSE IF doc_stride <= 0 THEN [kind |-> "hang"]
            ELSE DocSpansLoopNoMin(n_doc, max_tokens_for_doc, doc_stride,
                                   start_offset + doc_stride, spans)

\* the span loop advancing by the span's length, whatever doc_stride is
RECURSIVE DocSpansLoopNoStride(_, _, _, _, _)
DocSpansLoopNoStride(n_doc, max_tokens_for_doc, doc_stride, start_offset, doc_spans) ==
    IF ~(start_offset < n_doc) THEN [kind |-> "list", doc_spans |-> doc_spans]
    ELSE LET rest == n_doc - start_offset
             length == IF rest > max_tokens_for_doc THEN max_tokens_for_doc ELSE rest
             spans == Append(doc_spans, [start |-> start_offset, length |-> length])
         IN IF start_offset + length = n_doc THEN [kind |-> "list", doc_spans |-> spans]
            ELSE IF length <= 0 THEN [kind |-> "hang"]
            ELSE DocSpansLoopNoStride(n_doc, max_tokens_for_doc, doc_stride,
                                      start_offset + length, spans)

\* the while loop that cuts the document into spans; it does not end when a
\* span that is not the last one advances start_offset by nothing or backwards
RECURSIVE DocSpansLoop(_, _, _, _, _)
DocSpansLoop(n_doc, max_tokens_for_doc, doc_stride, start_offset, doc_spans) ==
    IF ~(start_offset < n_doc) THEN [kind |-> "list", doc_spans |-> doc_spans]
    ELSE LET rest == n_doc - start_offset
             length == IF rest > max_tokens_for_doc THEN max_tokens_for_doc ELSE rest
             spans == Append(doc_spans, [start |-> start_offset, length |-> length])
         IN IF start_offset + length = n_doc THEN [kind |-> "list", doc_spans |-> spans]
            ELSE IF Min(length, doc_stride) <= 0 THEN [kind |-> "hang"]
            ELSE DocSpansLoop(n_doc, max_tokens_for_doc, doc_stride,
                              start_offset + Min(length, doc_stride), spans)

\* min(left, right) + 0.01 * length, in hundredths
ContextScore(doc_span, position) ==
    LET end == doc_span.start + doc_span.length - 1
    IN 100 * Min(position - doc_span.start, end - position) + doc_span.length

InSpan(doc_span, position) ==
    /\ position >= doc_span.start
    /\ position <= doc_span.start + doc_span.length - 1

\* best_span_index: the first span holding the position with the largest score
BestSpanIndex(doc_spans, position) ==
    LET holding == {i \in DOMAIN doc_spans : InSpan(doc_spans[i], position)}
    IN IF holding = {} THEN NoneVal
       ELSE Some(CHOOSE i \in holding :
               \A j \in holding :
                  \/ ContextScore(doc_spans[i], position) > ContextScore(doc_spans[j], position)
                  \/ /\ ContextScore(doc_spans[i], position) = ContextScore(doc_spans[j], position)
                     /\ i <= j)

\* every span whose score equals the best one counts as the max context
CheckIsMaxContextTies(doc_spans, cur_span_index, position) ==
    /\ InSpan(doc_spans[cur_span_index], position)
    /\ \A j \in DOMAIN doc_spans :
          InSpan(doc_spans[j], position) =>
             ContextScore(doc_spans[cur_span_index], position)
                >= ContextScore(doc_spans[j], position)

\* cur_span_index is 1-based here, as DOMAIN doc_spans is
CheckIsMaxContext(doc_spans, cur_span_index, position) ==
    Some(cur_span_index) = BestSpanIndex(doc_spans, position)

Repeat(v, n) == [i \in 1..n |-> v]

\* a 0-based Python list or dict as a function on 0-based keys
KeysFrom(offset, n) == offset..(offset + n - 1)

\* the offset without the +1 for [SEP]
DocOffsetNoSep(query_tokens) == Len(query_tokens) + 1

\* doc_offset: +1 for [CLS], +1 for [SEP]
DocOffset(query_tokens) == Len(query_tokens) + 2

\* p_mask with 1 for the cls token too
PMaskClsMasked(n_query, n_para, pad) ==
    <<1>> \o Repeat(1, n_query) \o <<1>> \o Repeat(0, n_para) \o <<1>>
    \o Repeat(1, pad)

\* p_mask left without its padding
PMaskUnpadded(n_query, n_para, pad) ==
    <<0>> \o Repeat(1, n_query) \o <<1>> \o Repeat(0, n_para) \o <<1>>

\* p_mask: 0 on [CLS] and on the paragraph, 1 on the query, on both [SEP]
\* and on the padding
PMask(n_query, n_para, pad) ==
    <<0>> \o Repeat(1, n_query) \o <<1>> \o Repeat(0, n_para) \o <<1>>
    \o Repeat(1, pad)

\* the body of the for loop over doc_spans, for the span at doc_span_index,
\* up to and including qa_features.append; unique_id is the value the loop
\* has already advanced
QaFeature(example, tokenizer, query_tokens, tok, doc_spans, doc_span_index, tok_start_position, tok_end_position, unique_id, is_training, max_seq_len) ==
    LET doc_span == doc_spans[doc_span_index]
        doc_offset == DocOffset(query_tokens)
        para == [i \in 1..Max(doc_span.length, 0) |->
                    tok.all_doc_tokens[doc_span.start + i]]
        tokens == <<cls_token>> \o query_tokens \o <<sep_token>> \o para \o <<sep_token>>
        token_to_orig_map ==
            [p \in KeysFrom(doc_offset, Max(doc_span.length, 0)) |->
                tok.tok_to_orig_index[doc_span.start + (p - doc_offset) + 1]]
        token_is_max_context ==
            [p \in KeysFrom(doc_offset, Max(doc_span.length, 0)) |->
                CheckIsMaxContext(doc_spans, doc_span_index,
                                  doc_span.start + (p - doc_offset))]
        cls_index == 0
        ids == ConvertTokensToIds(tokens)
        pad == IF Len(ids) < max_seq_len THEN max_seq_len - Len(ids) ELSE 0
        input_ids == ids \o Repeat(0, pad)
        input_mask == Repeat(1, Len(ids)) \o Repeat(0, pad)
        segment_ids == <<0>> \o Repeat(0, Len(query_tokens)) \o <<0>>
                       \o Repeat(1, Len(para)) \o <<1>> \o Repeat(0, pad)
        p_mask == PMask(Len(query_tokens), Len(para), pad)
        doc_start == doc_span.start
        doc_end == doc_span.start + doc_span.length - 1
        out_of_span == ~(tok_start_position[1] >= doc_start
                         /\ tok_end_position[1] <= doc_end)
        start_position ==
            IF ~is_training THEN NoneVal
            ELSE IF example.is_impossible \/ out_of_span THEN Some(cls_index)
            ELSE Some(tok_start_position[1] - doc_start + doc_offset)
        end_position ==
            IF ~is_training THEN NoneVal
            ELSE IF example.is_impossible \/ out_of_span THEN Some(cls_index)
            ELSE Some(tok_end_position[1] - doc_start + doc_offset)
    IN IF Len(input_ids) # max_seq_len \/ Len(input_mask) # max_seq_len
          \/ Len(segment_ids) # max_seq_len
       THEN Raise("AssertionError")
       ELSE [kind |-> "feature",
             unique_id |-> unique_id,
             qa_id |-> example.qa_id,
             tokens |-> tokens,
             token_to_orig_map |-> token_to_orig_map,
             token_is_max_context |-> token_is_max_context,
             input_ids |-> input_ids,
             input_mask |-> input_mask,
             segment_ids |-> segment_ids,
             start_position |-> start_position,
             end_position |-> end_position,
             cls_index |-> cls_index,
             p_mask |-> p_mask,
             paragraph_len |-> doc_span.length]

\* the counter advanced by 1 in both modes
NextUniqueIdAlwaysOne(unique_id, is_training) == unique_id + 1

\* unique_id += 1 in training, += 2 otherwise
NextUniqueId(unique_id, is_training) ==
    IF is_training THEN unique_id + 1 ELSE unique_id + 2

\* The for loop over doc_spans.  Its last statement, at the indentation of
\* the loop body, is `return qa_features`: the first iteration returns the
\* list holding the first span's feature, and with no span at all the
\* function falls off its end and returns None.
FirstFeature(f) ==
    IF f.kind = "raise" THEN f ELSE [kind |-> "list", qa_features |-> <<f>>]

FeaturesLoop(example, tokenizer, query_tokens, tok, doc_spans, tok_start_position, tok_end_position, unique_id, is_training, max_seq_len) ==
    IF doc_spans = <<>> THEN [kind |-> "None"]
    ELSE FirstFeature(QaFeature(example, tokenizer, query_tokens, tok, doc_spans, 1,
                                tok_start_position, tok_end_position,
                                NextUniqueId(unique_id, is_training),
                                is_training, max_seq_len))

\* the query, the sub-word document and the answer's sub-word span
QueryTokens(example, tokenizer, max_question_length) ==
    LET q == Tokenize(tokenizer, example.question_text)
    IN IF Len(q) > max_question_length THEN PySlice(q, 0, max_question_length) ELSE q

SubTokens(example, tokenizer) ==
    DocTokLoop(tokenizer, example.doc_tokens, 1, <<>>, <<>>, <<>>)

MaxTokensForDoc(query_tokens, max_seq_len) == max_seq_len - Len(query_tokens) - 3

ExampleDocSpans(example, tokenizer, max_question_length, max_seq_len, doc_stride) ==
    DocSpansLoop(Len(SubTokens(example, tokenizer).all_doc_tokens),
                 MaxTokensForDoc(QueryTokens(example, tokenizer, max_question_length),
                                 max_seq_len),
                 doc_stride, 0, <<>>)

\* tok_start_position and tok_end_position of the example
SomePair(span) == <<Some(span[1]), Some(span[2])>>

AnswerTokSpan(example, tokenizer, tok, is_training) ==
    LET tok_start_0 == PyAt(tok.orig_to_tok_index, example.start_position[1])
        tok_end_0 ==
            IF example.end_position[1] < Len(example.doc_tokens) - 1
            THEN PyAt(tok.orig_to_tok_index, example.end_position[1] + 1) - 1
            ELSE Len(tok.all_doc_tokens) - 1
    IN IF ~is_training THEN <<NoneVal, NoneVal>>
       ELSE IF example.is_impossible THEN <<Some(-1), Some(-1)>>
       ELSE SomePair(ImproveAnswerSpan(tok.all_doc_tokens, tok_start_0, tok_end_0,
                                       tokenizer, example.orig_answer_text))

\* the loop over doc_spans, once the spans and the answer span are known
SpanFeatures(example, tokenizer, query_tokens, tok, spans, tok_span, unique_id, is_training, max_seq_len) ==
    IF spans.kind = "hang" THEN spans
    ELSE FeaturesLoop(example, tokenizer, query_tokens, tok, spans.doc_spans,
                      tok_span[1], tok_span[2], unique_id, is_training, max_seq_len)

\* _create_qa_features after the question and the document are tokenized
TokenizedFeatures(example, tokenizer, query_tokens, tok, unique_id, is_training, max_seq_len, doc_stride) ==
    IF /\ is_training /\ ~example.is_impossible
       /\ ~PyIndexOk(tok.orig_to_tok_index, example.start_position[1])
    THEN Raise("IndexError")
    ELSE SpanFeatures(example, tokenizer, query_tokens, tok,
                      DocSpansLoop(Len(tok.all_doc_tokens),
                                   MaxTokensForDoc(query_tokens, max_seq_len),
                                   doc_stride, 0, <<>>),
                      AnswerTokSpan(example, tokenizer, tok, is_training),
                      unique_id, is_training, max_seq_len)

CreateQaFeatures(example, tokenizer, unique_id, is_training, max_question_length, max_seq_len, doc_stride) ==
    TokenizedFeatures(example, tokenizer,
                      QueryTokens(example, tokenizer, max_question_length),
                      SubTokens(example, tokenizer),
                      unique_id, is_training, max_seq_len, doc_stride)

------------------------------------------------------------------------------
(* _get_final_text                                                          *)

\* _strip_spaces: the text without its spaces, and for each kept character
\* (0-based, in order) its 0-based index in the text
RECURSIVE StripSpacesLoop(_, _, _, _)
StripSpacesLoop(text, i, ns_chars, ns_to_s_map) ==
    IF i > Len(text) THEN [ns_text |-> ns_chars, ns_to_s_map |-> ns_to_s_map]
    ELSE IF text[i] = " "
         THEN StripSpacesLoop(text, i + 1, ns_chars, ns_to_s_map)
         ELSE StripSpacesLoop(text, i + 1, Append(ns_chars, text[i]),
                              Append(ns_to_s_map, i - 1))

StripSpaces(text) == StripSpacesLoop(text, 1, <<>>, <<>>)

\* a faulty variant of Fallback: the prediction is returned as it came
FallbackPred(pred_text, orig_text) == pred_text

\* a faulty variant of OutputText: the slice stops one character early
OutputTextShort(orig_text, orig_start_position, orig_end_position) ==
    PySlice(orig_text, orig_start_position, orig_end_position)

\* the value returned when the alignment heuristic gives up
Fallback(pred_text, orig_text) == orig_text

\* output_text = orig_text[orig_start_position : (orig_end_position + 1)]
OutputText(orig_text, orig_start_position, orig_end_position) ==
    PySlice(orig_text, orig_start_position, orig_end_position + 1)

\* `key in d` and d[key] for a map kept as the sequence of its values
HasKey(m, k) == 0 <= k /\ k < Len(m)

\* tok_s_to_ns_map: index in tok_text -> index among its non-space characters
TokSToNs(tok_ns_to_s_map, pos) ==
    IF \E k \in 0..(Len(tok_ns_to_s_map) - 1) : tok_ns_to_s_map[k + 1] = pos
    THEN Some(CHOOSE k \in 0..(Len(tok_ns_to_s_map) - 1) : tok_ns_to_s_map[k + 1] = pos)
    ELSE NoneVal

\* orig_start_position and orig_end_position
OrigPosition(tok_ns_to_s_map, orig_ns_to_s_map, pos) ==
    LET ns == TokSToNs(tok_ns_to_s_map, pos)
    IN IF IsNone(ns) THEN NoneVal
       ELSE IF HasKey(orig_ns_to_s_map, ns[1]) THEN Some(orig_ns_to_s_map[ns[1] + 1])
       ELSE NoneVal

\* the function, with the return statement it left through
GetFinalTextTrace(pred_text, orig_text, do_lower_case) ==
    LET tok_text == Join(SP, BasicTokenize(orig_text, do_lower_case))
        start_position == Find(tok_text, pred_text)
        end_position == start_position + Len(pred_text) - 1
        orig_ns == StripSpaces(orig_text)
        tok_ns == StripSpaces(tok_text)
        orig_start_position ==
            OrigPosition(tok_ns.ns_to_s_map, orig_ns.ns_to_s_map, start_position)
        orig_end_position ==
            OrigPosition(tok_ns.ns_to_s_map, orig_ns.ns_to_s_map, end_position)
        Give(via) == [text |-> Fallback(pred_text, orig_text), via |-> via]
    IN IF start_position = -1 THEN Give("not found")
       ELSE IF Len(orig_ns.ns_text) # Len(tok_ns.ns_text) THEN Give("length")
       ELSE IF IsNone(orig_start_position) THEN Give("start")
       ELSE IF IsNone(orig_end_position) THEN Give("end")
       ELSE [text |-> OutputText(orig_text, orig_start_position[1], orig_end_position[1]),
             via |-> "slice"]

GetFinalText(pred_text, orig_text, do_lower_case) ==
    GetFinalTextTrace(pred_text, orig_text, do_lower_case).text

\* the texts _get_final_text is called on
MaxOrigLen == 4

FTChars == {"a", "A", ",", " ", "\t"}

StringsUpTo(n) == UNION {[1..k -> FTChars] : k \in 0..n}

Substrings(text) ==
    {SubSeq(text, i, j) : i \in 1..(Len(text) + 1), j \in 0..Len(text)}

FTIdle ==
    /\ ft_pc = "idle"
    /\ ft_args = [pred_text |-> <<>>, orig_text |-> <<>>, do_lower_case |-> FALSE]
    /\ ft_out = [text |-> <<>>, via |-> ""]

FTInit ==
    /\ ft_pc = "call"
    /\ \E orig \in StringsUpTo(MaxOrigLen) :
         \E pred \in Substrings(orig) \cup StringsUpTo(2) :
            \E lower \in BOOLEAN :
               ft_args = [pred_text |-> pred, orig_text |-> orig, do_lower_case |-> lower]
    /\ ft_out = [text |-> <<>>, via |-> ""]

FinalTextCall ==
    /\ ft_pc = "call"
    /\ ft_out' = GetFinalTextTrace(ft_args.pred_text, ft_args.orig_text,
                                   ft_args.do_lower_case)
    /\ ft_pc' = "returned"
    /\ UNCHANGED ft_args
    /\ UNCHANGED dl_vars
    /\ UNCHANGED pp_vars
    /\ UNCHANGED fn_vars

------------------------------------------------------------------------------
(* Post-processing helpers                                                  *)

\* an ascending sort read backwards: equal keys come out in reverse order
RECURSIVE InsertDescReversedTies(_, _)
InsertDescReversedTies(sorted, x) ==
    IF sorted = <<>> THEN <<x>>
    ELSE IF Head(sorted).key > x.key
         THEN <<Head(sorted)>> \o InsertDescReversedTies(Tail(sorted), x)
         ELSE <<x>> \o sorted

\* sorted(..., key, reverse=True) over records with a key field: descending,
\* equal keys in their original order
RECURSIVE InsertDesc(_, _)
InsertDesc(sorted, x) ==
    IF sorted = <<>> THEN <<x>>
    ELSE IF Head(sorted).key >= x.key
         THEN <<Head(sorted)>> \o InsertDesc(Tail(sorted), x)
         ELSE <<x>> \o sorted

RECURSIVE SortedDescLoop(_, _, _)
SortedDescLoop(s, i, acc) ==
    IF i > Len(s) THEN acc ELSE SortedDescLoop(s, i + 1, InsertDesc(acc, s[i]))

SortedDesc(s) == SortedDescLoop(s, 1, <<>>)

\* _get_best_indexes: 0-based indexes of the n_best_size largest logits
GetBestIndexes(logits, n_best_size) ==
    LET index_and_score ==
            SortedDesc([i \in 1..Len(logits) |-> [index |-> i - 1, key |-> logits[i]]])
        n == Max(0, Min(n_best_size, Len(index_and_score)))
    IN [i \in 1..n |-> index_and_score[i].index]

\* softmax is kept symbolic: the probability of entry i of a score list
Prob(total_scores, i) == [softmax_of |-> total_scores, index |-> i]

PrelimPrediction(feature_index, start_index, end_index, start_logit, end_logit) ==
    [feature_index |-> feature_index, start_index |-> start_index,
     end_index |-> end_index, start_logit |-> start_logit, end_logit |-> end_logit,
     key |-> start_logit + end_logit]

NbestPrediction(text, start_logit, end_logit) ==
    [text |-> text, start_logit |-> start_logit, end_logit |-> end_logit]

\* d.get(str(index), False) and str(index) in d, for a dict read back from json
JsonHas(d, index) == ToString(index) \in DOMAIN d
JsonGetFalse(d, index) == IF JsonHas(d, index) THEN d[ToString(index)] ELSE FALSE

\* features of one example: qa_id_to_features[example["qa_id"]]
FeaturesOf(all_features, qa_id) ==
    SelectSeq(all_features, LAMBDA f : f.qa_id = qa_id)

\* unique_id_to_result[unique_id]: the last result carrying the id
HasResult(all_results, unique_id) == \E k \in DOMAIN all_results : all_results[k].unique_id = unique_id
ResultOf(all_results, unique_id) ==
    all_results[CHOOSE k \in DOMAIN all_results :
               /\ all_results[k].unique_id = unique_id
               /\ \A j \in DOMAIN all_results : all_results[j].unique_id = unique_id => j <= k]

\* all pairs (start, end) in the order of the two nested loops
LoopPairs(start_indexes, end_indexes) ==
    LET ne == Len(end_indexes)
    IN [k \in 1..(Len(start_indexes) * ne) |->
           <<start_indexes[((k - 1) \div ne) + 1], end_indexes[((k - 1) % ne) + 1]>>]

------------------------------------------------------------------------------
(* postprocess_bert_answer, one example                                     *)

\* the filter without the test of the answer's length
BertKeepsAnyLength(f, start_index, end_index, max_answer_length) ==
    /\ ~(start_index >= Len(f.tokens))
    /\ ~(end_index >= Len(f.tokens))
    /\ JsonHas(f.token_to_orig_map, start_index)
    /\ JsonHas(f.token_to_orig_map, end_index)
    /\ JsonGetFalse(f.token_is_max_context, start_index)
    /\ ~(end_index < start_index)

\* the filter of the extractive form
BertKeeps(f, start_index, end_index, max_answer_length) ==
    /\ ~(start_index >= Len(f.tokens))
    /\ ~(end_index >= Len(f.tokens))
    /\ JsonHas(f.token_to_orig_map, start_index)
    /\ JsonHas(f.token_to_orig_map, end_index)
    /\ JsonGetFalse(f.token_is_max_context, start_index)
    /\ ~(end_index < start_index)
    /\ ~(end_index - start_index + 1 > max_answer_length)

BertCandidates(f, feature_index, result, n_best_size, max_answer_length) ==
    LET start_indexes == GetBestIndexes(result.start_logits, n_best_size)
        end_indexes == GetBestIndexes(result.end_logits, n_best_size)
        kept == SelectSeq(LoopPairs(start_indexes, end_indexes),
                          LAMBDA p : BertKeeps(f, p[1], p[2], max_answer_length))
    IN [k \in DOMAIN kept |->
           PrelimPrediction(feature_index, kept[k][1], kept[k][2],
                            result.start_logits[kept[k][1] + 1],
                            result.end_logits[kept[k][2] + 1])]

\* score_null and the feature it comes from, over the example's features
RECURSIVE NullTrack(_, _, _, _)
NullTrack(feats, all_results, i, acc) ==
    IF i > Len(feats) THEN acc
    ELSE LET result == ResultOf(all_results, feats[i].unique_id)
             feature_null_score == result.start_logits[1] + result.end_logits[1]
         IN IF feature_null_score < acc.score_null
            THEN NullTrack(feats, all_results, i + 1,
                           [score_null |-> feature_null_score,
                            min_null_feature_index |-> i - 1,
                            null_start_logit |-> result.start_logits[1],
                            null_end_logit |-> result.end_logits[1]])
            ELSE NullTrack(feats, all_results, i + 1, acc)

NullStart == [score_null |-> 1000000, min_null_feature_index |-> 0,
              null_start_logit |-> 0, null_end_logit |-> 0]

\* the text of a non-null prediction of the extractive form
BertFinalText(example, f, pred, do_lower_case) ==
    LET tok_tokens == PySlice(f.tokens, pred.start_index, pred.end_index + 1)
        orig_doc_start == f.token_to_orig_map[ToString(pred.start_index)]
        orig_doc_end == f.token_to_orig_map[ToString(pred.end_index)]
        orig_tokens == PySlice(example.doc_tokens, orig_doc_start, orig_doc_end + 1)
        joined == Join(SP, tok_tokens)
        detok == Replace(Replace(joined, <<" ", "#", "#">>, <<>>), <<"#", "#">>, <<>>)
        tok_text == CleanWhitespace(detok)
        orig_text == Join(SP, orig_tokens)
    IN GetFinalText(tok_text, orig_text, do_lower_case)

\* a faulty variant of SkipSeen: nothing is skipped
NeverSkip(final_text, seen_predictions) == FALSE

\* whether a prediction whose text was already emitted is skipped
SkipSeen(final_text, seen_predictions) == final_text \in seen_predictions

\* the rest of one loop iteration for a non-null prediction with text final_text
AddUnseen(acc, final_text, pred) ==
    IF SkipSeen(final_text, acc.seen) THEN acc
    ELSE [acc EXCEPT !.seen = acc.seen \cup {final_text},
                     !.nbest = Append(acc.nbest,
                                      NbestPrediction(final_text, pred.start_logit,
                                                      pred.end_logit))]

\* the rest of one loop iteration for the null prediction
AddNull(acc, pred) ==
    [acc EXCEPT !.seen = acc.seen \cup {<<>>},
                !.nbest = Append(acc.nbest,
                                 NbestPrediction(<<>>, pred.start_logit, pred.end_logit))]

\* the loop over the sorted prelim_predictions that fills nbest
RECURSIVE BertNbestLoop(_, _, _, _, _, _, _)
BertNbestLoop(example, feats, prelim, i, n_best_size, do_lower_case, acc) ==
    IF i > Len(prelim) \/ Len(acc.nbest) >= n_best_size THEN acc
    ELSE BertNbestLoop(example, feats, prelim, i + 1, n_best_size, do_lower_case,
                       IF prelim[i].start_index > 0
                       THEN AddUnseen(acc,
                                      BertFinalText(example,
                                                    feats[prelim[i].feature_index + 1],
                                                    prelim[i], do_lower_case),
                                      prelim[i])
                       ELSE AddNull(acc, prelim[i]))

\* a faulty variant of BertPadNbest: no nonce in front of a lone null entry
BertPadNbestNoNonce(nbest, seen, unanswerable_exists, null) ==
    IF unanswerable_exists /\ <<>> \notin seen
    THEN Append(nbest, NbestPrediction(<<>>, null.null_start_logit, null.null_end_logit))
    ELSE IF nbest = <<>> THEN <<NbestPrediction(<<"e", "m", "p", "t", "y">>, 0, 0)>>
    ELSE nbest

EmptyNonce == NbestPrediction(<<"e", "m", "p", "t", "y">>, 0, 0)

\* lines 790-807: the empty option and the nonce predictions
BertPadNbest(nbest, seen, unanswerable_exists, null) ==
    LET with_null ==
            IF unanswerable_exists /\ <<>> \notin seen
            THEN Append(nbest, NbestPrediction(<<>>, null.null_start_logit,
                                               null.null_end_logit))
            ELSE nbest
        with_nonce ==
            IF unanswerable_exists /\ Len(with_null) = 1
            THEN <<EmptyNonce>> \o with_null
            ELSE with_null
    IN IF with_nonce = <<>> THEN <<EmptyNonce>> ELSE with_nonce

\* indexes (1-based) of the entries with a non-empty text, and with an empty one
NonNullAt(nbest) == {i \in DOMAIN nbest : nbest[i].text # <<>>}
NullAt(nbest) == {i \in DOMAIN nbest : nbest[i].text = <<>>}
Least(S) == CHOOSE i \in S : \A j \in S : i <= j
Greatest(S) == CHOOSE i \in S : \A j \in S : i >= j

\* a faulty variant of ScoreDiff: the end logit is forgotten
ScoreDiffStartOnly(score_null, best_non_null_entry) ==
    score_null - best_non_null_entry.start_logit

\* a faulty variant of PredictsNull: the comparison is turned round
PredictsNullBelow(score_diff, null_score_diff_threshold) ==
    score_diff < null_score_diff_threshold

\* score_null - best_non_null_entry.start_logit - (best_non_null_entry.end_logit)
ScoreDiff(score_null, best_non_null_entry) ==
    score_null - best_non_null_entry.start_logit - best_non_null_entry.end_logit

\* score_diff > null_score_diff_threshold
PredictsNull(score_diff, null_score_diff_threshold) ==
    score_diff > null_score_diff_threshold

NbestJson(nbest, total_scores) ==
    [i \in DOMAIN nbest |->
        [text |-> nbest[i].text, probability |-> Prob(total_scores, i),
         start_logit |-> nbest[i].start_logit, end_logit |-> nbest[i].end_logit]]

TotalScores(nbest) == [i \in DOMAIN nbest |-> nbest[i].start_logit + nbest[i].end_logit]

ExampleOutput(text, prob, score_diff, nbest_json, prelim_predictions, score_null) ==
    [kind |-> "ok", prediction |-> text, prob |-> prob, score_diff |-> score_diff,
     nbest_json |-> nbest_json, prelim_predictions |-> prelim_predictions,
     score_null |-> score_null]

\* lines 836-852 with null answers allowed: the decision between the empty
\* answer and best_non_null_entry
BertNullDecision(args, null, prelim_predictions, nbest, total_scores, best_non_null_entry_index, score_diff) ==
    IF PredictsNull(score_diff, args.null_score_diff_threshold)
    THEN ExampleOutput(<<>>, Prob(total_scores, Greatest(NullAt(nbest))),
                       Some(score_diff), NbestJson(nbest, total_scores),
                       prelim_predictions, null.score_null)
    ELSE ExampleOutput(nbest[best_non_null_entry_index].text,
                       Prob(total_scores, best_non_null_entry_index),
                       Some(score_diff), NbestJson(nbest, total_scores),
                       prelim_predictions, null.score_null)

\* lines 811-852: the scores, the n-best json and the prediction of the example
BertDecide(args, null, prelim_predictions, nbest, total_scores) ==
    IF ~args.unanswerable_exists
    THEN ExampleOutput(nbest[1].text, Prob(total_scores, 1), NoneVal,
                       NbestJson(nbest, total_scores), prelim_predictions,
                       null.score_null)
    ELSE IF NonNullAt(nbest) = {} THEN Raise("AttributeError")
    ELSE IF NullAt(nbest) = {} THEN Raise("NameError")
    ELSE BertNullDecision(args, null, prelim_predictions, nbest, total_scores,
                          Least(NonNullAt(nbest)),
                          ScoreDiff(null.score_null, nbest[Least(NonNullAt(nbest))]))

BertAfterPad(args, null, prelim_predictions, nbest) ==
    BertDecide(args, null, prelim_predictions, nbest, TotalScores(nbest))

BertAfterLoop(args, null, prelim_predictions, loop) ==
    BertAfterPad(args, null, prelim_predictions,
                 BertPadNbest(loop.nbest, loop.seen, args.unanswerable_exists, null))

\* lines 754-789 on the sorted prelim_predictions; features[pred.feature_index]
\* raises IndexError when the example has no feature
BertAfterSort(example, feats, args, null, prelim_predictions) ==
    IF feats = <<>> /\ prelim_predictions # <<>> /\ args.n_best_size > 0
    THEN Raise("IndexError")
    ELSE BertAfterLoop(args, null, prelim_predictions,
                       BertNbestLoop(example, feats, prelim_predictions, 1,
                                     args.n_best_size, args.do_lower_case,
                                     [seen |-> {}, nbest |-> <<>>]))

\* lines 737-752: the null candidate appended, the list sorted
BertPrelim(args, null, cands) ==
    SortedDesc(IF args.unanswerable_exists
               THEN Append(cands, PrelimPrediction(null.min_null_feature_index, 0, 0,
                                                   null.null_start_logit,
                                                   null.null_end_logit))
               ELSE cands)

BertAfterFeatures(example, feats, args, null, cands) ==
    BertAfterSort(example, feats, args, null, BertPrelim(args, null, cands))

\* lines 692-736: the loop over the example's features
BertAllCandidates(feats, all_results, args) ==
    Concat([i \in DOMAIN feats |->
               BertCandidates(feats[i], i - 1, ResultOf(all_results, feats[i].unique_id),
                              args.n_best_size, args.max_answer_length)])

BertExampleOf(example, feats, all_results, args) ==
    IF \E i \in DOMAIN feats : ~HasResult(all_results, feats[i].unique_id)
    THEN Raise("KeyError")
    ELSE BertAfterFeatures(example, feats, args,
                           IF args.unanswerable_exists
                           THEN NullTrack(feats, all_results, 1, NullStart)
                           ELSE NullStart,
                           BertAllCandidates(feats, all_results, args))

\* one iteration of `for example in examples_all`
PostprocessBertExample(example, all_features, all_results, args) ==
    BertExampleOf(example, FeaturesOf(all_features, example.qa_id), all_results, args)

------------------------------------------------------------------------------
(* postprocess_xlnet_answer, one example                                    *)

\* the filter of the extended form
XLNetKeeps(feature, start_index, end_index, max_answer_length) ==
    /\ ~(start_index >= feature.paragraph_len - 1)
    /\ ~(end_index >= feature.paragraph_len - 1)
    /\ JsonGetFalse(feature.token_is_max_context, start_index)
    /\ ~(end_index < start_index)
    /\ ~(end_index - start_index + 1 > max_answer_length)

\* (i, j) for i in range(n_best_size) for j in range(n_best_size)
RangePairs(n_best_size) ==
    [k \in 1..(n_best_size * n_best_size) |->
        <<(k - 1) \div n_best_size, (k - 1) % n_best_size>>]

\* whether the nested loops read past the end of a top-k list
XLNetIndexError(result, n_best_size) ==
    \/ n_best_size > 0 /\ Len(result.start_top_log_probs) < n_best_size
    \/ n_best_size > 0 /\ Len(result.start_top_index) < n_best_size
    \/ n_best_size > 0 /\ Len(result.end_top_log_probs) < n_best_size * n_best_size
    \/ n_best_size > 0 /\ Len(result.end_top_index) < n_best_size * n_best_size

XLNetCandidates(feature, feature_index, result, n_best_size, max_answer_length) ==
    LET J(p) == p[1] * n_best_size + p[2]
        kept == SelectSeq(RangePairs(n_best_size),
                    LAMBDA p : XLNetKeeps(feature, result.start_top_index[p[1] + 1],
                                          result.end_top_index[J(p) + 1],
                                          max_answer_length))
    IN [k \in DOMAIN kept |->
           PrelimPrediction(feature_index,
                            result.start_top_index[kept[k][1] + 1],
                            result.end_top_index[J(kept[k]) + 1],
                            result.start_top_log_probs[kept[k][1] + 1],
                            result.end_top_log_probs[J(kept[k]) + 1])]

\* score_null = min(score_null, result.cls_logits) over the example's features
RECURSIVE XLNetScoreNull(_, _, _, _)
XLNetScoreNull(feats, all_results, i, score_null) ==
    IF i > Len(feats) THEN score_null
    ELSE XLNetScoreNull(feats, all_results, i + 1,
                        Min(score_null, ResultOf(all_results, feats[i].unique_id).cls_logits))

XLNetFinalText(example, feature, pred, tokenizer) ==
    LET tok_tokens == PySlice(feature.tokens, pred.start_index, pred.end_index + 1)
        orig_doc_start == feature.token_to_orig_map[ToString(pred.start_index)]
        orig_doc_end == feature.token_to_orig_map[ToString(pred.end_index)]
        orig_tokens == PySlice(example.doc_tokens, orig_doc_start, orig_doc_end + 1)
        tok_text == CleanWhitespace(ConvertTokensToString(tok_tokens))
        orig_text == Join(SP, orig_tokens)
    IN GetFinalText(tok_text, orig_text, tokenizer.do_lower_case)

\* the loop over the sorted prelim_predictions that fills nbest; a prediction
\* whose index is no key of token_to_orig_map raises KeyError
RECURSIVE XLNetNbestLoop(_, _, _, _, _, _, _)
XLNetNbestLoop(example, feats, prelim, i, n_best_size, tokenizer, acc) ==
    IF i > Len(prelim) \/ Len(acc.nbest) >= n_best_size \/ acc.key_error THEN acc
    ELSE XLNetNbestLoop(example, feats, prelim, i + 1, n_best_size, tokenizer,
            IF ~(/\ JsonHas(feats[prelim[i].feature_index + 1].token_to_orig_map,
                            prelim[i].start_index)
                 /\ JsonHas(feats[prelim[i].feature_index + 1].token_to_orig_map,
                            prelim[i].end_index))
            THEN [acc EXCEPT !.key_error = TRUE]
            ELSE AddUnseen(acc,
                           XLNetFinalText(example, feats[prelim[i].feature_index + 1],
                                          prelim[i], tokenizer),
                           prelim[i]))

\* -1e6
MinusMillion == 0 - 1000000

XLNetPlaceholder == NbestPrediction(<<>>, MinusMillion, MinusMillion)

\* the decision of lines 836-851 carried over, with the default threshold
XLNetDecideThreshold(score_null, prelim_predictions, nbest, total_scores) ==
    ExampleOutput(IF score_null - total_scores[1] > 0 THEN <<>> ELSE nbest[1].text,
                  Prob(total_scores, 1), Some(score_null - total_scores[1]),
                  NbestJson(nbest, total_scores), prelim_predictions, score_null)

\* lines 1015-1045: the scores, the n-best json and the prediction of the example
XLNetDecide(score_null, prelim_predictions, nbest, total_scores) ==
    ExampleOutput(nbest[1].text, Prob(total_scores, 1), Some(score_null),
                  NbestJson(nbest, total_scores), prelim_predictions, score_null)

XLNetAfterLoop(score_null, prelim_predictions, loop) ==
    IF loop.key_error THEN Raise("KeyError")
    ELSE XLNetDecide(score_null, prelim_predictions,
                     IF loop.nbest = <<>> THEN <<XLNetPlaceholder>> ELSE loop.nbest,
                     TotalScores(IF loop.nbest = <<>> THEN <<XLNetPlaceholder>>
                                 ELSE loop.nbest))

XLNetAfterSort(example, feats, args, score_null, prelim_predictions) ==
    XLNetAfterLoop(score_null, prelim_predictions,
                   XLNetNbestLoop(example, feats, prelim_predictions, 1, args.n_best_size,
                                  [model_type |-> "xlnet",
                                   do_lower_case |-> args.do_lower_case],
                                  [seen |-> {}, nbest |-> <<>>, key_error |-> FALSE]))

\* lines 918-960: the loop over the example's features
XLNetAllCandidates(feats, all_results, args) ==
    Concat([i \in DOMAIN feats |->
               XLNetCandidates(feats[i], i - 1, ResultOf(all_results, feats[i].unique_id),
                               args.n_best_size, args.max_answer_length)])

XLNetExampleOf(example, feats, all_results, args) ==
    IF \E i \in DOMAIN feats : ~HasResult(all_results, feats[i].unique_id)
    THEN Raise("KeyError")
    ELSE IF \E i \in DOMAIN feats :
               XLNetIndexError(ResultOf(all_results, feats[i].unique_id), args.n_best_size)
    THEN Raise("IndexError")
    ELSE XLNetAfterSort(example, feats, args,
                        XLNetScoreNull(feats, all_results, 1, 1000000),
                        SortedDesc(XLNetAllCandidates(feats, all_results, args)))

\* one iteration of `for example in examples_all`
PostprocessXLNetExample(example, all_features, all_results, args) ==
    XLNetExampleOf(example, FeaturesOf(all_features, example.qa_id), all_results, args)

------------------------------------------------------------------------------
(* QADataset and get_qa_dataloader                                          *)

UniqueIdBase == 1000000000

MaxDataset == 2

\* the invocations that are followed
Invocations == {1, 2}

Q1 == <<"q">>
Q2 == <<"q", " ", "r">>

Row(doc, question, id, impossible, a_start, a_text) ==
    [doc_text |-> doc, question_text |-> question, qa_id |-> id,
     is_impossible |-> impossible, answer_start |-> <<a_start>>,
     answer_text |-> <<a_text>>]

\* the rows a data frame is made of
Rows ==
    { Row(<<"a", " ", "b", " ", "c", " ", "d">>, Q1, 1, FALSE, 2, <<"b">>),
      Row(<<"A", "b", "c", " ", "d">>, Q2, 2, FALSE, 0, <<"A", "b", "c">>),
      Row(<<"a", " ", "b">>, Q1, 3, FALSE, 0, <<"b">>),
      Row(<<"a", ",", " ", "b">>, Q1, 4, TRUE, 0, <<>>),
      Row(<<" ">>, Q1, 5, TRUE, 0, <<>>) }

Injective(s) == \A i, j \in DOMAIN s : i # j => s[i] # s[j]

RowSeqs == UNION {{s \in [1..n -> Rows] : Injective(s)} : n \in 1..MaxDataset}

Datasets == [rows : RowSeqs, actual_answer_available : BOOLEAN]

\* QADataset.__getitem__ (idx is 1-based here)
DatasetGetItem(ds, i) ==
    LET current_item == ds.rows[i]
    IN IF ds.actual_answer_available
       THEN [doc_text |-> current_item.doc_text,
             question_text |-> current_item.question_text,
             qa_id |-> current_item.qa_id,
             is_impossible |-> current_item.is_impossible,
             answer_start |-> current_item.answer_start,
             answer_text |-> current_item.answer_text,
             answer_is_list |-> FALSE]
       ELSE [doc_text |-> current_item.doc_text,
             question_text |-> current_item.question_text,
             qa_id |-> current_item.qa_id,
             is_impossible |-> current_item.is_impossible,
             answer_start |-> <<-1>>,
             answer_text |-> <<<<>>>>,
             answer_is_list |-> FALSE]

Configs ==
    [model_type : {"bert"},
     is_training : BOOLEAN,
     to_lower : {FALSE},
     max_question_length : {1, 2},
     max_seq_len : {6, 7},
     doc_stride : {1, 2}]

TokenizerOf(c) == [model_type |-> c.model_type, do_lower_case |-> c.to_lower]

\* json writes the integer keys of a dict as strings
JsonObject(f) ==
    [k \in {ToString(p) : p \in DOMAIN f} |->
        f[CHOOSE p \in DOMAIN f : ToString(p) = k]]

ExampleJson(e) == [qa_id |-> e.qa_id, doc_tokens |-> e.doc_tokens]

FeatureJson(f) ==
    [qa_id |-> f.qa_id,
     unique_id |-> f.unique_id,
     tokens |-> f.tokens,
     token_to_orig_map |-> JsonObject(f.token_to_orig_map),
     token_is_max_context |-> JsonObject(f.token_is_max_context),
     paragraph_len |-> f.paragraph_len]

\* a faulty variant of LastUniqueId: the counter is not advanced
LastUniqueIdStale(fs, unique_id) == unique_id

\* unique_id_cur after the inner loop over features_cur: the last feature's id
LastUniqueId(fs, unique_id) ==
    IF fs = <<>> THEN unique_id ELSE fs[Len(fs)].unique_id

NoCall == [kind |-> "none yet"]

LoopEnd(pc, exc, ex, appended, fc) ==
    [pc |-> pc, exc |-> exc, ex |-> ex, appended |-> appended, fc |-> fc]

\* how the iteration ends once _create_qa_features has returned fc
AfterFeatures(ex, fc) ==
    IF fc.kind = "raise" THEN LoopEnd("raised", fc.exc, ex, TRUE, fc)
    ELSE IF fc.kind = "hang" THEN LoopEnd("hung", "", ex, TRUE, fc)
    ELSE IF fc.kind = "None"
    THEN LoopEnd("raised", "TypeError", ex, TRUE, fc)            \* features += None
    ELSE LoopEnd("loop", "", ex, TRUE, fc)

\* how the iteration goes on once _create_qa_example has returned ex
AfterExample(ex, c, unique_id) ==
    IF ex.kind = "raise" THEN LoopEnd("raised", ex.exc, ex, FALSE, NoCall)
    ELSE IF ex.kind = "None"
    THEN LoopEnd("raised", "AttributeError", ex, TRUE, NoCall)   \* qa_example_cur.qa_id
    ELSE AfterFeatures(ex, CreateQaFeatures(ex, TokenizerOf(c), unique_id,
                                            c.is_training, c.max_question_length,
                                            c.max_seq_len, c.doc_stride))

\* The body of `for qa_input in qa_dataset` for record i with the counter at
\* unique_id: the two calls and how the iteration ends.  appended tells
\* whether qa_examples.append ran before the iteration ended.
LoopBody(ds, c, i, unique_id) ==
    AfterExample(CreateQaExample(DatasetGetItem(ds, i), c.is_training), c, unique_id)

FeatureJsons(fs) == [i \in DOMAIN fs |-> FeatureJson(fs[i])]
UniqueIds(fs) == [i \in DOMAIN fs |-> fs[i].unique_id]

\* What a whole invocation leaves in its two cache files: both are opened
\* for writing before the loop and written after it.
RECURSIVE WrittenFiles(_, _, _, _, _, _)
WrittenAfter(ds, c, i, unique_id, examples_json, feats_json, r) ==
    IF r.pc # "loop"
    THEN [pc |-> r.pc, examples_file |-> <<>>, features_file |-> <<>>]
    ELSE WrittenFiles(ds, c, i + 1,
                      LastUniqueId(r.fc.qa_features, unique_id),
                      Append(examples_json, ExampleJson(r.ex)),
                      feats_json \o FeatureJsons(r.fc.qa_features))

WrittenFiles(ds, c, i, unique_id, examples_json, feats_json) ==
    IF i > Len(ds.rows)
    THEN [pc |-> "returned", examples_file |-> examples_json, features_file |-> feats_json]
    ELSE WrittenAfter(ds, c, i, unique_id, examples_json, feats_json,
                      LoopBody(ds, c, i, unique_id))

DLStart ==
    /\ dl_pc = "idle"
    /\ dl_exc = ""
    /\ cfg = [model_type |-> "bert", is_training |-> FALSE, to_lower |-> FALSE,
              max_question_length |-> 1, max_seq_len |-> 6, doc_stride |-> 1]
    /\ qa_dataset = [rows |-> <<>>, actual_answer_available |-> FALSE]
    /\ idx = 1
    /\ unique_id_cur = UniqueIdBase
    /\ unique_id_all = <<>>
    /\ features = <<>>
    /\ qa_examples = <<>>
    /\ qa_examples_json = <<>>
    /\ features_json = <<>>
    /\ qa_example_cur = NoCall
    /\ features_cur = NoCall
    /\ invocation = 0
    /\ emitted = {}

\* get_qa_dataloader up to the for loop: the training check, the cache files
\* opened for writing, the counters and lists initialised
StartDataloader ==
    /\ dl_pc \in {"idle", "returned", "raised"}
    /\ invocation + 1 \in Invocations
    /\ \E ds \in Datasets, c \in Configs :
        /\ qa_dataset' = ds
        /\ cfg' = c
        /\ invocation' = invocation + 1
        /\ idx' = 1
        /\ unique_id_cur' = UniqueIdBase
        /\ unique_id_all' = <<>>
        /\ features' = <<>>
        /\ qa_examples' = <<>>
        /\ qa_examples_json' = <<>>
        /\ features_json' = <<>>
        /\ qa_example_cur' = NoCall
        /\ features_cur' = NoCall
        /\ IF c.is_training /\ ~ds.actual_answer_available
           THEN dl_pc' = "raised" /\ dl_exc' = "Exception"
           ELSE dl_pc' = "loop" /\ dl_exc' = ""
    /\ UNCHANGED emitted
    /\ UNCHANGED ft_vars
    /\ UNCHANGED pp_vars
    /\ UNCHANGED fn_vars

\* one iteration of `for qa_input in qa_dataset`
ProcessRecord ==
    /\ dl_pc = "loop"
    /\ idx <= Len(qa_dataset.rows)
    /\ \E r \in {LoopBody(qa_dataset, cfg, idx, unique_id_cur)} :
          /\ qa_example_cur' = r.ex
          /\ features_cur' = r.fc
          /\ qa_examples' = IF r.appended THEN Append(qa_examples, r.ex) ELSE qa_examples
          /\ dl_pc' = r.pc
          /\ dl_exc' = r.exc
          /\ IF r.pc = "loop"
             THEN /\ qa_examples_json' = Append(qa_examples_json, ExampleJson(r.ex))
                  /\ features' = features \o r.fc.qa_features
                  /\ features_json' = features_json \o FeatureJsons(r.fc.qa_features)
                  /\ unique_id_cur' = LastUniqueId(r.fc.qa_features, unique_id_cur)
                  /\ unique_id_all' = unique_id_all \o UniqueIds(r.fc.qa_features)
                  /\ emitted' = emitted \cup
                        {<<invocation, r.fc.qa_features[i].unique_id>> :
                            i \in DOMAIN r.fc.qa_features}
                  /\ idx' = idx + 1
             ELSE UNCHANGED <<idx, unique_id_cur, unique_id_all, features,
                              qa_examples_json, features_json, emitted>>
    /\ UNCHANGED <<cfg, qa_dataset, invocation>>
    /\ UNCHANGED ft_vars
    /\ UNCHANGED pp_vars
    /\ UNCHANGED fn_vars

\* after the loop: write_all of qa_examples_json and features_json into the
\* two cache files, the tensors, the dataloader returned
FinishDataloader ==
    /\ dl_pc = "loop"
    /\ idx > Len(qa_dataset.rows)
    /\ dl_pc' = "returned"
    /\ UNCHANGED <<dl_exc, cfg, qa_dataset, idx, unique_id_cur, unique_id_all, features,
                   qa_examples, qa_examples_json, features_json, qa_example_cur,
                   features_cur, invocation, emitted>>
    /\ UNCHANGED ft_vars
    /\ UNCHANGED pp_vars
    /\ UNCHANGED fn_vars

DLNext == StartDataloader \/ ProcessRecord \/ FinishDataloader


------------------------------------------------------------------------------
(* The two aggregators as a loop over examples_all                          *)

MaxNBest == 2

\* a large threshold, and a large negative one
HugeThreshold == 1000 * 1000
Thresholds == {0 - 1, 0}

\* the data frames whose cache files are post-processed
PPRows ==
    [aa |-> Row(<<"a", " ", "a">>, Q1, 6, FALSE, 0, <<>>),
     b |-> Row(<<"b">>, Q1, 7, FALSE, 0, <<>>),
     c |-> Row(<<"c">>, Q1, 9, FALSE, 0, <<>>),
     punct |-> Row(<<"a", ",", " ", "b">>, Q1, 4, FALSE, 0, <<>>),
     long |-> Row(<<"a", " ", "a", " ", "a", " ", "a", " ", "a", " ", "a">>, Q1, 8,
                  FALSE, 0, <<>>)]

PPConfig(model_type, max_seq_len) ==
    [model_type |-> model_type, is_training |-> FALSE, to_lower |-> FALSE,
     max_question_length |-> 1, max_seq_len |-> max_seq_len, doc_stride |-> 1]

PPDataset(rows) == [rows |-> rows, actual_answer_available |-> FALSE]

PPInputs ==
    { [ds |-> PPDataset(<<PPRows.aa>>), c |-> PPConfig("bert", 6)],
      [ds |-> PPDataset(<<PPRows.punct>>), c |-> PPConfig("bert", 7)],
      [ds |-> PPDataset(<<PPRows.b, PPRows.c>>), c |-> PPConfig("bert", 6)],
      [ds |-> PPDataset(<<PPRows.long>>), c |-> PPConfig("xlnet", 10)],
      [ds |-> PPDataset(<<PPRows.aa>>), c |-> PPConfig("xlnet", 6)] }

PPArgs(model_type) ==
    [fn : {model_type},
     do_lower_case : {FALSE},
     n_best_size : 1..MaxNBest,
     max_answer_length : {1, 2},
     unanswerable_exists : BOOLEAN,
     null_score_diff_threshold : IF model_type = "bert" THEN Thresholds ELSE {0}]

\* the raw scores of the model: 0 or 1 on [CLS] and on the first two paragraph
\* tokens, 0 on every other position
LogitVals == {0, 1}

\* the cls score of a QAResultExtended, an output of its own
ClsVals == {0, 3}

FreePositions(f) ==
    {1} \cup {p \in 1..Len(f.tokens) :
                /\ JsonHas(f.token_to_orig_map, p - 1)
                /\ ~JsonHas(f.token_to_orig_map, p - 3)}

LogitVectors(f) ==
    {v \in [1..Len(f.tokens) -> LogitVals] :
        \A p \in 1..Len(f.tokens) : p \notin FreePositions(f) => v[p] = 0}

\* logits as large as the start value of score_null on [CLS], 0 elsewhere
HugeLogit == 1000000

ClsHuge(f) == [p \in 1..Len(f.tokens) |-> IF p = 1 THEN HugeLogit ELSE 0]

\* QAResult of one feature
QAResult(unique_id, start_logits, end_logits) ==
    [unique_id |-> unique_id, start_logits |-> start_logits, end_logits |-> end_logits]

\* QAResultExtended of one feature: the n_top best start positions and, for each
\* of them, the n_top best end positions
QAResultExtended(unique_id, start_logits, end_logits, cls_logits, n_top) ==
    LET start_top_index == GetBestIndexes(start_logits, n_top)
        end_top == GetBestIndexes(end_logits, n_top)
        end_top_index == Concat([i \in DOMAIN start_top_index |-> end_top])
    IN [unique_id |-> unique_id,
        start_top_log_probs |->
            [i \in DOMAIN start_top_index |-> start_logits[start_top_index[i] + 1]],
        start_top_index |-> start_top_index,
        end_top_log_probs |->
            [i \in DOMAIN end_top_index |-> end_logits[end_top_index[i] + 1]],
        end_top_index |-> end_top_index,
        cls_logits |-> cls_logits]

\* the results the model can hand in for one feature
ResultChoices(f, args) ==
    IF args.fn = "bert"
    THEN {QAResult(f.unique_id, s, e) : s \in LogitVectors(f), e \in LogitVectors(f)}
         \cup {QAResult(f.unique_id, ClsHuge(f), ClsHuge(f))}
    ELSE {QAResultExtended(f.unique_id, s, e, cls, args.n_best_size) :
             s \in LogitVectors(f), e \in LogitVectors(f), cls \in ClsVals}

\* every way to append one result per feature of fs, in order
RECURSIVE ResultLists(_, _, _)
ResultLists(fs, args, acc) ==
    IF fs = <<>> THEN {acc}
    ELSE UNION {ResultLists(Tail(fs), args, Append(acc, r)) :
                   r \in ResultChoices(Head(fs), args)}

EmptyDict == <<>>
DictSet(d, k, v) == [x \in DOMAIN d \cup {k} |-> IF x = k THEN v ELSE d[x]]

PPIdle ==
    /\ pp_pc = "idle"
    /\ pp_exc = ""
    /\ pp_args = [fn |-> "bert", do_lower_case |-> FALSE, n_best_size |-> 1,
                  max_answer_length |-> 1, unanswerable_exists |-> FALSE,
                  null_score_diff_threshold |-> 0]
    /\ examples_all = <<>>
    /\ features_all = <<>>
    /\ results = <<>>
    /\ pp_i = 1
    /\ all_predictions = EmptyDict
    /\ all_probs = EmptyDict
    /\ all_nbest_json = EmptyDict
    /\ scores_diff_json = EmptyDict
    /\ pp_last = NoCall
    /\ pp_run = 1
    /\ first_predictions = EmptyDict

\* postprocess_*_answer up to the loop over examples_all: the two cache files
\* of an inference invocation of get_qa_dataloader read back, the four output
\* dictionaries empty
PPInit ==
    /\ pp_pc = "loop"
    /\ pp_exc = ""
    /\ \E inp \in PPInputs :
         \E files \in {WrittenFiles(inp.ds, inp.c, 1, UniqueIdBase, <<>>, <<>>)} :
            /\ files.pc = "returned"
            /\ examples_all = files.examples_file
            /\ features_all = files.features_file
            /\ pp_args \in PPArgs(inp.c.model_type)
    /\ results = <<>>
    /\ pp_i = 1
    /\ all_predictions = EmptyDict
    /\ all_probs = EmptyDict
    /\ all_nbest_json = EmptyDict
    /\ scores_diff_json = EmptyDict
    /\ pp_last = NoCall
    /\ pp_run = 1
    /\ first_predictions = EmptyDict

PostprocessExampleOf(example, rs, args) ==
    IF args.fn = "bert"
    THEN PostprocessBertExample(example, features_all, rs, args)
    ELSE PostprocessXLNetExample(example, features_all, rs, args)

\* one iteration of `for example in examples_all`, in either aggregator
PostprocessExample ==
    /\ pp_pc = "loop"
    /\ pp_i <= Len(examples_all)
    /\ LET example == examples_all[pp_i]
           fs == FeaturesOf(features_all, example.qa_id)
       IN \E rs \in (IF pp_run = 1 THEN ResultLists(fs, pp_args, results)
                     ELSE {results}) :
            \E out \in {PostprocessExampleOf(example, rs, pp_args)} :
               /\ results' = rs
               /\ pp_last' = out
               /\ IF out.kind = "raise"
                  THEN /\ pp_pc' = "raised"
                       /\ pp_exc' = out.exc
                       /\ UNCHANGED <<pp_i, all_predictions, all_probs, all_nbest_json,
                                      scores_diff_json>>
                  ELSE /\ pp_pc' = "loop"
                       /\ pp_exc' = ""
                       /\ pp_i' = pp_i + 1
                       /\ all_predictions' =
                              DictSet(all_predictions, example.qa_id, out.prediction)
                       /\ all_probs' = DictSet(all_probs, example.qa_id, out.prob)
                       /\ all_nbest_json' =
                              DictSet(all_nbest_json, example.qa_id, out.nbest_json)
                       /\ scores_diff_json' =
                              IF IsNone(out.score_diff) THEN scores_diff_json
                              ELSE DictSet(scores_diff_json, example.qa_id,
                                           out.score_diff[1])
    /\ UNCHANGED <<pp_args, examples_all, features_all, pp_run, first_predictions>>
    /\ UNCHANGED dl_vars
    /\ UNCHANGED ft_vars
    /\ UNCHANGED fn_vars

\* after the loop: the output files written, the three dictionaries returned
FinishPostprocess ==
    /\ pp_pc = "loop"
    /\ pp_i > Len(examples_all)
    /\ pp_pc' = "returned"
    /\ UNCHANGED <<pp_exc, pp_args, examples_all, features_all, results, pp_i,
                   all_predictions, all_probs, all_nbest_json, scores_diff_json,
                   pp_last, pp_run, first_predictions>>
    /\ UNCHANGED dl_vars
    /\ UNCHANGED ft_vars
    /\ UNCHANGED fn_vars

\* postprocess_bert_answer called again on the same files and results, with
\* null answers allowed and null_score_diff_threshold moved far up or far down
RerunWithThreshold ==
    /\ pp_pc = "returned"
    /\ pp_run = 1
    /\ pp_args.fn = "bert"
    /\ pp_args.unanswerable_exists
    /\ \E t \in {HugeThreshold, 0 - HugeThreshold} :
         pp_args' = [pp_args EXCEPT !.null_score_diff_threshold = t]
    /\ pp_run' = 2
    /\ first_predictions' = all_predictions
    /\ pp_pc' = "loop"
    /\ pp_i' = 1
    /\ all_predictions' = EmptyDict
    /\ all_probs' = EmptyDict
    /\ all_nbest_json' = EmptyDict
    /\ scores_diff_json' = EmptyDict
    /\ pp_last' = NoCall
    /\ UNCHANGED <<pp_exc, examples_all, features_all, results>>
    /\ UNCHANGED dl_vars
    /\ UNCHANGED ft_vars
    /\ UNCHANGED fn_vars

PPNext == PostprocessExample \/ FinishPostprocess \/ RerunWithThreshold

------------------------------------------------------------------------------
(* The helpers called on their own                                          *)

FNIdle ==
    /\ fn_pc = "idle"
    /\ fn_args = NoCall
    /\ fn_out = NoCall

\* the documents _create_qa_example is called on
MaxDocLen == 4

EXChars == {"a", " ", "\t", "\r", "\n", "U+202F"}

EXDocs == UNION {[1..k -> EXChars] : k \in 0..MaxDocLen}

Mary == <<"M", "a", "r", "y", " ", "h", "a", "d", " ", "a", " ",
          "l", "i", "t", "t", "l", "e", " ", "l", "a", "m", "b">>

ALittleLamb == <<"a", " ", "l", "i", "t", "t", "l", "e", " ", "l", "a", "m", "b">>

\* a QAInput as QADataset.__getitem__ builds it, the answer columns holding
\* scalars (as_list false) or lists
QAInput(doc, impossible, as_list, a_start, a_text) ==
    [doc_text |-> doc, question_text |-> Q1, qa_id |-> 1,
     is_impossible |-> impossible, answer_start |-> a_start,
     answer_text |-> a_text, answer_is_list |-> as_list]

AnswerLists ==
    UNION {[1..n -> {0, 2}] \X [1..n -> {<<"a">>, <<"b">>}] : n \in 0..2}

EXInputs ==
    {QAInput(d, imp, FALSE, <<0>>, <<<<"a">>>>) : d \in EXDocs, imp \in BOOLEAN}
    \cup {QAInput(<<"a", " ", "b">>, imp, TRUE, al[1], al[2]) :
            imp \in BOOLEAN, al \in AnswerLists}
    \cup {QAInput(Mary, FALSE, l, <<a>>, <<ALittleLamb>>) :
            l \in BOOLEAN, a \in {9, 11}}

InitEX ==
    /\ DLStart /\ FTIdle /\ PPIdle
    /\ fn_pc = "call"
    /\ fn_args \in [qa_input : EXInputs, is_training : BOOLEAN]
    /\ fn_out = NoCall

CreateQaExampleCall ==
    /\ fn_pc = "call"
    /\ fn_out' = CreateQaExample(fn_args.qa_input, fn_args.is_training)
    /\ fn_pc' = IF fn_out'.kind = "raise" THEN "raised" ELSE "returned"
    /\ UNCHANGED fn_args
    /\ UNCHANGED dl_vars
    /\ UNCHANGED ft_vars
    /\ UNCHANGED pp_vars

\* the sub-word documents the span loop of _create_qa_features is run on
MaxDocToks == 6
MaxSpanLen == 4
MaxStride == 4

\* a document of 105 sub-word tokens cut by max_seq_len = 108, a one-token
\* question and doc_stride = 102
LongDocument == [n_doc |-> 105, max_tokens_for_doc |-> 104, doc_stride |-> 102]

InitDS ==
    /\ DLStart /\ FTIdle /\ PPIdle
    /\ fn_pc = "call"
    /\ fn_args \in [n_doc : 1..MaxDocToks, max_tokens_for_doc : 0..MaxSpanLen,
                     doc_stride : 0..MaxStride] \cup {LongDocument}
    /\ fn_out = NoCall

\* the while loop over start_offset
DocSpansCall ==
    /\ fn_pc = "call"
    /\ \E r \in {DocSpansLoop(fn_args.n_doc, fn_args.max_tokens_for_doc,
                              fn_args.doc_stride, 0, <<>>)} :
          IF r.kind = "hang"
          THEN fn_pc' = "hung" /\ fn_out' = r
          ELSE /\ fn_pc' = "spans"
               /\ fn_out' = [kind |-> "list", doc_spans |-> r.doc_spans,
                             token_is_max_context |-> <<>>]
    /\ UNCHANGED fn_args
    /\ UNCHANGED dl_vars
    /\ UNCHANGED ft_vars
    /\ UNCHANGED pp_vars

\* one round of the for loop over doc_spans, as far as it fills
\* token_is_max_context; the keys here are positions in the document
FlagDocSpan ==
    /\ fn_pc = "spans"
    /\ LET doc_span_index == Len(fn_out.token_is_max_context) + 1
           doc_span == fn_out.doc_spans[doc_span_index]
           flags == [p \in KeysFrom(doc_span.start, doc_span.length) |->
                        CheckIsMaxContext(fn_out.doc_spans, doc_span_index, p)]
       IN /\ fn_out' = [fn_out EXCEPT !.token_is_max_context = Append(@, flags)]
          /\ fn_pc' = IF doc_span_index = Len(fn_out.doc_spans)
                      THEN "returned" ELSE "spans"
    /\ UNCHANGED fn_args
    /\ UNCHANGED dl_vars
    /\ UNCHANGED ft_vars
    /\ UNCHANGED pp_vars

DSNext == DocSpansCall \/ FlagDocSpan

\* the score lists _get_best_indexes is called on
MaxScores == 4
MaxK == 5

ScoreVals == {0, 1, 2}

InitBI ==
    /\ DLStart /\ FTIdle /\ PPIdle
    /\ fn_pc = "call"
    /\ fn_args \in [logits : UNION {[1..n -> ScoreVals] : n \in 0..MaxScores},
                    n_best_size : 0..MaxK]
    /\ fn_out = NoCall

GetBestIndexesCall ==
    /\ fn_pc = "call"
    /\ fn_out' = [kind |-> "list",
                  best_indexes |-> GetBestIndexes(fn_args.logits, fn_args.n_best_size)]
    /\ fn_pc' = "returned"
    /\ UNCHANGED fn_args
    /\ UNCHANGED dl_vars
    /\ UNCHANGED ft_vars
    /\ UNCHANGED pp_vars

vars == <<dl_vars, ft_vars, pp_vars, fn_vars>>

DLInit == DLStart /\ FTIdle /\ PPIdle /\ FNIdle

Spec == DLInit /\ [][DLNext]_vars

InitFT == DLStart /\ FTInit /\ PPIdle /\ FNIdle

SpecFT == InitFT /\ [][FinalTextCall]_vars

InitPP == DLStart /\ FTIdle /\ PPInit /\ FNIdle

SpecPP == InitPP /\ [][PPNext]_vars

SpecEX == InitEX /\ [][CreateQaExampleCall]_vars

SpecDS == InitDS /\ [][DSNext]_vars

SpecBI == InitBI /\ [][GetBestIndexesCall]_vars

------------------------------------------------------------------------------
(* Properties of get_qa_dataloader, checked under Spec                      *)

\* the paragraph region of a feature: the tokens between the two [SEP]
ParagraphRegion(f) == SubSeq(f.tokens, Len(f.tokens) - f.paragraph_len, Len(f.tokens) - 1)

\* the sub-word tokens a DocSpan covers
SpanTokens(all_doc_tokens, doc_span) ==
    SubSeq(all_doc_tokens, doc_span.start + 1, doc_span.start + doc_span.length)

\* the span partition of the example of the last _create_qa_features call
CurDocSpans ==
    ExampleDocSpans(qa_example_cur, TokenizerOf(cfg), cfg.max_question_length,
                    cfg.max_seq_len, cfg.doc_stride).doc_spans

\* C1: whenever _create_qa_features returns a list, it holds exactly one
\* feature per DocSpan of the example, and the i-th feature's paragraph region
\* holds the sub-word tokens of the i-th span.
C1_OneFeaturePerDocSpan ==
    features_cur.kind = "list" =>
        /\ Len(features_cur.qa_features) = Len(CurDocSpans)
        /\ \A i \in DOMAIN CurDocSpans :
              /\ i \in DOMAIN features_cur.qa_features
              /\ ParagraphRegion(features_cur.qa_features[i]) =
                    SpanTokens(SubTokens(qa_example_cur, TokenizerOf(cfg)).all_doc_tokens,
                               CurDocSpans[i])

\* C2: when _create_qa_example returns nothing for a record, get_qa_dataloader
\* goes on without raising, and the dropped record leaves nothing in the
\* examples.
C2_DroppedRecordSkipped ==
    qa_example_cur.kind = "None" =>
        /\ dl_pc # "raised"
        /\ \A i \in DOMAIN qa_examples : qa_examples[i].kind # "None"

\* C3 as stated: no two features produced by different invocations carry the
\* same unique_id.
C3_NoCollisionAcrossInvocations ==
    \A p, q \in emitted : p[2] = q[2] => p[1] = q[1]

\* C3: within one invocation no two features carry the same unique_id, and
\* every invocation numbers its features from 1000000000 again.
C3_UniqueWithinInvocation ==
    /\ \A i, j \in DOMAIN features :
          i # j => features[i].unique_id # features[j].unique_id
    /\ features # <<>> =>
          features[1].unique_id = NextUniqueId(UniqueIdBase, cfg.is_training)

\* a second invocation that produced features for two records
C3_Witness ==
    /\ invocation = 2
    /\ dl_pc = "returned"
    /\ Len(features) >= 2

------------------------------------------------------------------------------
(* Properties of the two aggregators, checked under SpecPP                  *)

\* the example of the last loop iteration and its features
LastExample == examples_all[pp_i - 1]
LastFeatures == FeaturesOf(features_all, LastExample.qa_id)

LastOk == pp_pc \in {"loop", "returned"} /\ pp_i > 1 /\ pp_last.kind = "ok"

\* the valid non-null candidates of the last example, as generated
LastCandidates == BertAllCandidates(LastFeatures, results, pp_args)

SetMin(S) == CHOOSE x \in S : \A y \in S : x <= y
SetMax(S) == CHOOSE x \in S : \A y \in S : x >= y

\* the minimum null score over the features of the last example
LastNullScore ==
    SetMin({ResultOf(results, LastFeatures[i].unique_id).start_logits[1]
            + ResultOf(results, LastFeatures[i].unique_id).end_logits[1] :
               i \in DOMAIN LastFeatures})

LastBestScore == SetMax({LastCandidates[k].key : k \in DOMAIN LastCandidates})

CandidateText(cand) ==
    BertFinalText(LastExample, LastFeatures[cand.feature_index + 1], cand,
                  pp_args.do_lower_case)

C5_NullDecision ==
    (LastOk /\ pp_args.fn = "bert" /\ pp_args.unanswerable_exists
        /\ LastCandidates # <<>>) =>
        /\ (pp_last.prediction = <<>>) <=>
              (LastNullScore - LastBestScore > pp_args.null_score_diff_threshold)
        /\ pp_last.prediction # <<>> =>
              \E k \in DOMAIN LastCandidates :
                 /\ LastCandidates[k].key = LastBestScore
                 /\ pp_last.prediction = CandidateText(LastCandidates[k])

\* the empty answer predicted although a valid non-null candidate exists
C5_Witness ==
    /\ LastOk
    /\ pp_args.fn = "bert"
    /\ pp_args.unanswerable_exists
    /\ pp_run = 1
    /\ LastCandidates # <<>>
    /\ pp_last.prediction = <<>>

RaisedRerun ==
    pp_run = 2 /\ pp_args.null_score_diff_threshold = HugeThreshold
LoweredRerun ==
    pp_run = 2 /\ pp_args.null_score_diff_threshold = 0 - HugeThreshold

\* C6 as stated: an example answered with a non-empty text in the first call
\* is answered with the empty string when the call is repeated on the same
\* inputs with the threshold raised to a very large value.
C6_RaisedThresholdFlipsToEmpty ==
    RaisedRerun =>
        \A k \in 1..(pp_i - 1) :
            first_predictions[examples_all[k].qa_id] # <<>> =>
                all_predictions[examples_all[k].qa_id] = <<>>

\* C6: an example answered with a non-empty text in the first call keeps that
\* answer when the call is repeated with the threshold raised to a very large
\* value; it is with the threshold lowered to a very large negative value that
\* the repeated call answers with the empty string.
C6_RaisedThresholdKeepsAnswer ==
    /\ RaisedRerun =>
          \A k \in 1..(pp_i - 1) :
              first_predictions[examples_all[k].qa_id] # <<>> =>
                  all_predictions[examples_all[k].qa_id] =
                      first_predictions[examples_all[k].qa_id]
    /\ LoweredRerun =>
          \A k \in 1..(pp_i - 1) :
              first_predictions[examples_all[k].qa_id] # <<>> =>
                  all_predictions[examples_all[k].qa_id] = <<>>

\* the repeated call with the raised threshold has returned, and the first
\* call had given a non-empty answer
C6_Witness ==
    /\ RaisedRerun
    /\ pp_pc = "returned"
    /\ \E k \in DOMAIN examples_all : first_predictions[examples_all[k].qa_id] # <<>>

\* C7: the n-best list postprocess_bert_answer returns for an example has at
\* most n_best_size entries, whatever unanswerable_exists is.
C7_NbestAtMostNBestSize ==
    pp_args.fn = "bert" =>
        \A id \in DOMAIN all_nbest_json : Len(all_nbest_json[id]) <= pp_args.n_best_size

\* C8: in both aggregators no two entries of an example's n-best list have the
\* same text.
C8_NbestTextsDistinct ==
    \A id \in DOMAIN all_nbest_json :
        \A i, j \in DOMAIN all_nbest_json[id] :
            i # j => all_nbest_json[id][i].text # all_nbest_json[id][j].text

\* postprocess_xlnet_answer met, as its two best candidates, two different
\* one-token spans of the same feature holding the same token
C8_Witness ==
    /\ LastOk
    /\ pp_args.fn = "xlnet"
    /\ pp_args.n_best_size >= 2
    /\ Len(pp_last.prelim_predictions) >= 2
    /\ LET p == pp_last.prelim_predictions[1]
           q == pp_last.prelim_predictions[2]
       IN /\ p.start_index = p.end_index
          /\ q.start_index = q.end_index
          /\ p.start_index # q.start_index
          /\ p.feature_index = q.feature_index
          /\ LastFeatures[p.feature_index + 1].tokens[p.start_index + 1] =
                LastFeatures[q.feature_index + 1].tokens[q.start_index + 1]

------------------------------------------------------------------------------
(* Properties of _get_final_text, checked under SpecFT                      *)

IsSubstring(pred_text, orig_text) ==
    \E i \in 0..Len(orig_text) : StartsAt(orig_text, pred_text, i)

\* pred_text is a contiguous substring of orig_text that starts and ends on a
\* non-space character
ExactSubstring(pred_text, orig_text) ==
    /\ pred_text # <<>>
    /\ IsSubstring(pred_text, orig_text)
    /\ pred_text[1] # " "
    /\ pred_text[Len(pred_text)] # " "

\* orig_text re-tokenized as _get_final_text does it
TokText(orig_text, do_lower_case) == Join(SP, BasicTokenize(orig_text, do_lower_case))

\* C9 as stated, for a cased tokenizer and texts without tabs: a predicted
\* text that is exactly a contiguous substring of the original text comes back
\* unchanged.
C9_SubstringReturnedUnchanged ==
    (/\ ft_pc = "returned"
     /\ ~ft_args.do_lower_case
     /\ \A i \in DOMAIN ft_args.orig_text : ft_args.orig_text[i] # "\t"
     /\ ExactSubstring(ft_args.pred_text, ft_args.orig_text)) =>
        ft_out.text = ft_args.pred_text

\* C9: when re-tokenizing the original text gives the original text back, a
\* predicted text that is exactly a contiguous substring of it, starting and
\* ending on non-space characters, comes back unchanged.
C9_SubstringOfTokenizedText ==
    (/\ ft_pc = "returned"
     /\ ExactSubstring(ft_args.pred_text, ft_args.orig_text)
     /\ TokText(ft_args.orig_text, ft_args.do_lower_case) = ft_args.orig_text) =>
        ft_out.text = ft_args.pred_text

\* a proper substring cut out of a text with free-standing punctuation
C9_Witness ==
    /\ ft_pc = "returned"
    /\ ExactSubstring(ft_args.pred_text, ft_args.orig_text)
    /\ TokText(ft_args.orig_text, ft_args.do_lower_case) = ft_args.orig_text
    /\ Len(ft_args.pred_text) < Len(ft_args.orig_text)
    /\ \E i \in DOMAIN ft_args.orig_text : ft_args.orig_text[i] = ","
    /\ ft_out.via = "slice"

NonSpaceCount(text) == Cardinality({i \in DOMAIN text : text[i] # " "})

\* the three conditions under which _get_final_text gives up, stated on its
\* arguments: pred_text absent from the re-tokenized text, different numbers
\* of non-space characters, or a span end falling on a space
GivesUp(pred_text, orig_text, do_lower_case) ==
    LET tok_text == TokText(orig_text, do_lower_case)
        start_position == Find(tok_text, pred_text)
        end_position == start_position + Len(pred_text) - 1
    IN \/ start_position = -1
       \/ NonSpaceCount(orig_text) # NonSpaceCount(tok_text)
       \/ ~PyIndexOk(tok_text, start_position)
       \/ tok_text[start_position + 1] = " "
       \/ end_position < 0
       \/ tok_text[end_position + 1] = " "

\* C10: _get_final_text always returns; it returns orig_text whenever
\* pred_text is not found in the re-tokenized text, the space-stripped lengths
\* differ or an end of the span has no mapping, and otherwise a contiguous
\* slice of orig_text.
C10_OrigTextOrSlice ==
    ft_pc = "returned" =>
        /\ ft_out.via \in {"not found", "length", "start", "end", "slice"}
        /\ IF GivesUp(ft_args.pred_text, ft_args.orig_text, ft_args.do_lower_case)
           THEN ft_out.text = ft_args.orig_text
           ELSE \E lo \in 1..Len(ft_args.orig_text) :
                   \E hi \in lo..Len(ft_args.orig_text) :
                      ft_out.text = SubSeq(ft_args.orig_text, lo, hi)

\* a prediction found in the re-tokenized text whose end falls on a space
C10_Witness ==
    /\ ft_pc = "returned"
    /\ ft_out.via \in {"start", "end"}
    /\ ft_args.pred_text # ft_args.orig_text

------------------------------------------------------------------------------
(* C11: doc_tokens against the document                                     *)

WhitespaceChars == {" ", "\t", "\r", "\n", "U+202F"}

\* text with every maximal run of whitespace replaced by one space
RECURSIVE CollapseRuns(_, _)
CollapseRuns(text, i) ==
    IF i > Len(text) THEN <<>>
    ELSE IF text[i] \notin WhitespaceChars THEN <<text[i]>> \o CollapseRuns(text, i + 1)
    ELSE IF i > 1 /\ text[i - 1] \in WhitespaceChars THEN CollapseRuns(text, i + 1)
    ELSE SP \o CollapseRuns(text, i + 1)

\* text without its leading and trailing whitespace
Trimmed(text) ==
    LET solid == {i \in DOMAIN text : text[i] \notin WhitespaceChars}
    IN IF solid = {} THEN <<>>
       ELSE SubSeq(text, CHOOSE i \in solid : \A j \in solid : i <= j,
                         CHOOSE i \in solid : \A j \in solid : i >= j)

ExampleReturned == fn_pc = "returned" /\ fn_out.kind = "example"

\* C11 as stated: for every document, leading or trailing whitespace
\* included, doc_tokens joined with single spaces is the document with every
\* run of whitespace collapsed to one space
C11_JoinEqualsCollapsed ==
    ExampleReturned =>
        Join(SP, fn_out.doc_tokens) = CollapseRuns(fn_args.qa_input.doc_text, 1)

\* C11 amended: doc_tokens joined with single spaces is the document without
\* its leading and trailing whitespace and with every remaining run of
\* whitespace collapsed to one space
C11_JoinEqualsTrimmedCollapsed ==
    ExampleReturned =>
        Join(SP, fn_out.doc_tokens)
            = CollapseRuns(Trimmed(fn_args.qa_input.doc_text), 1)

C11_Witness ==
    /\ ExampleReturned
    /\ fn_args.qa_input.doc_text = <<"a", "\t", "U+202F", "a">>
    /\ fn_out.doc_tokens = <<<<"a">>, <<"a">>>>

------------------------------------------------------------------------------
(* C12: "Mary had a little lamb"                                            *)

MaryTokens ==
    <<<<"M", "a", "r", "y">>, <<"h", "a", "d">>, <<"a">>,
      <<"l", "i", "t", "t", "l", "e">>, <<"l", "a", "m", "b">>>>

\* the call on the document with the answer "a little lamb" at a_start
MaryCalled(a_start) ==
    /\ fn_pc # "call"
    /\ fn_pc # "idle"
    /\ fn_args.is_training
    /\ fn_args.qa_input.doc_text = Mary
    /\ fn_args.qa_input.answer_start = <<a_start>>

MaryResult ==
    /\ fn_out.kind = "example"
    /\ fn_out.doc_tokens = MaryTokens
    /\ fn_out.start_position = Some(2)
    /\ fn_out.end_position = Some(4)

\* C12 as stated: with answer_start = 11 the training call returns the five
\* tokens with start_position 2 and end_position 4
C12_MaryAtEleven == MaryCalled(11) => MaryResult

\* C12 amended: with answer_start = 9, the offset of the word "a", the
\* training call returns the five tokens with start_position 2 and
\* end_position 4
C12_MaryAtNine == MaryCalled(9) => MaryResult

C12_Witness == MaryCalled(9) /\ fn_pc = "returned" /\ ~fn_args.qa_input.answer_is_list

------------------------------------------------------------------------------
(* C13, C14, C15: the doc spans of one document                             *)

SpansBuilt == fn_pc \in {"spans", "returned"} /\ fn_out.kind = "list"

Covers(doc_span, p) == doc_span.start <= p /\ p < doc_span.start + doc_span.length

\* C13: the spans start at offset 0, every index in [0, N) lies in at least
\* one span, and no span extends past N
C13_SpansCoverDocument ==
    SpansBuilt =>
        /\ fn_out.doc_spans # <<>>
        /\ fn_out.doc_spans[1].start = 0
        /\ \A p \in 0..(fn_args.n_doc - 1) :
              \E k \in DOMAIN fn_out.doc_spans : Covers(fn_out.doc_spans[k], p)
        /\ \A k \in DOMAIN fn_out.doc_spans :
              /\ fn_out.doc_spans[k].length >= 1
              /\ fn_out.doc_spans[k].start + fn_out.doc_spans[k].length <= fn_args.n_doc

\* a document of three or more spans whose stride exceeds one
C13_Witness ==
    /\ SpansBuilt
    /\ Len(fn_out.doc_spans) >= 3
    /\ fn_args.doc_stride > 1
    /\ fn_args.doc_stride >= fn_args.max_tokens_for_doc

Shared(a, b) == {p \in 0..fn_args.n_doc : Covers(a, p) /\ Covers(b, p)}

\* C14: each span starts min(length, doc_stride) after the span before it,
\* and when doc_stride is less than that span's length the two share at
\* least length - doc_stride positions
C14_ConsecutiveSpans ==
    SpansBuilt =>
        \A k \in 1..(Len(fn_out.doc_spans) - 1) :
            LET a == fn_out.doc_spans[k]
                b == fn_out.doc_spans[k + 1]
            IN /\ b.start = a.start + Min(a.length, fn_args.doc_stride)
               /\ fn_args.doc_stride < a.length =>
                     Cardinality(Shared(a, b)) >= a.length - fn_args.doc_stride

C14_Witness ==
    /\ SpansBuilt
    /\ Len(fn_out.doc_spans) >= 2
    /\ fn_args.doc_stride < fn_out.doc_spans[1].length
    /\ Cardinality(Shared(fn_out.doc_spans[1], fn_out.doc_spans[2])) >= 2

Flagged(p) ==
    {k \in DOMAIN fn_out.token_is_max_context :
        p \in DOMAIN fn_out.token_is_max_context[k] /\ fn_out.token_is_max_context[k][p]}

Holding(p) == {k \in DOMAIN fn_out.doc_spans : Covers(fn_out.doc_spans[k], p)}

\* C15: a position that lies in two or more spans is flagged as max context
\* in exactly one of them
C15_OneMaxContextSpan ==
    (fn_pc = "returned" /\ fn_out.kind = "list") =>
        \A p \in 0..(fn_args.n_doc - 1) :
            Cardinality(Holding(p)) >= 2 => Cardinality(Flagged(p)) = 1

\* a position held by two spans of equal score, the earlier one flagged
C15_Witness ==
    /\ fn_pc = "returned"
    /\ fn_out.kind = "list"
    /\ \E p \in 0..(fn_args.n_doc - 1) :
          \E i, j \in Holding(p) :
             /\ i < j
             /\ ContextScore(fn_out.doc_spans[i], p) = ContextScore(fn_out.doc_spans[j], p)
             /\ Flagged(p) = {i}

------------------------------------------------------------------------------
(* C16: the four parallel arrays of a feature                               *)

\* C16: every feature _create_qa_features returns has input_ids, input_mask,
\* segment_ids and p_mask of exactly max_seq_len elements
C16_ArraysOfMaxSeqLen ==
    features_cur.kind = "list" =>
        \A i \in DOMAIN features_cur.qa_features :
            LET f == features_cur.qa_features[i]
            IN /\ Len(f.input_ids) = cfg.max_seq_len
               /\ Len(f.input_mask) = cfg.max_seq_len
               /\ Len(f.segment_ids) = cfg.max_seq_len
               /\ Len(f.p_mask) = cfg.max_seq_len

\* a feature whose paragraph needed padding
C16_Witness ==
    /\ features_cur.kind = "list"
    /\ \E i \in DOMAIN features_cur.qa_features :
          LET f == features_cur.qa_features[i]
          IN /\ Len(f.tokens) < cfg.max_seq_len
             /\ f.input_ids[cfg.max_seq_len] = 0
             /\ f.p_mask[cfg.max_seq_len] = 1
             /\ f.paragraph_len >= 1

------------------------------------------------------------------------------
(* C17: answer offsets given as a collection                                *)

\* the call has ended and its answer offsets were a collection of a length
\* other than one
CollectionNotOfOne ==
    /\ fn_pc \in {"returned", "raised"}
    /\ fn_args.qa_input.answer_is_list
    /\ Len(fn_args.qa_input.answer_start) # 1

\* C17: a collection whose length is not 1 makes _create_qa_example raise
\* exactly when is_training holds and the question is answerable; in inference
\* mode or for an impossible question any length, zero included, is accepted
C17_RaisesOnlyInTrainingAnswerable ==
    CollectionNotOfOne =>
        (fn_pc = "raised"
            <=> (fn_args.is_training /\ ~fn_args.qa_input.is_impossible))

------------------------------------------------------------------------------
(* C18: the positions of an example without a usable answer                 *)

PositionsAre(v) == fn_out.start_position = v /\ fn_out.end_position = v

\* C18 as stated: a returned example has start_position = end_position = -1
\* whenever the question is impossible or the call is in inference mode
C18_MinusOneWhenImpossibleOrInference ==
    (ExampleReturned /\ (fn_args.qa_input.is_impossible \/ ~fn_args.is_training))
        => PositionsAre(Some(-1))

\* C18 amended: a returned example has start_position = end_position = -1
\* when the call is in training mode and the question is impossible, and
\* start_position = end_position = None when the call is in inference mode
C18_MinusOneInTrainingNoneInInference ==
    ExampleReturned =>
        /\ (fn_args.is_training /\ fn_args.qa_input.is_impossible)
              => PositionsAre(Some(-1))
        /\ ~fn_args.is_training => PositionsAre(NoneVal)

C18_Witness ==
    /\ ExampleReturned
    /\ fn_args.is_training
    /\ fn_args.qa_input.is_impossible
    /\ fn_args.qa_input.answer_is_list
    /\ PositionsAre(Some(-1))

------------------------------------------------------------------------------
(* C19: _get_best_indexes                                                   *)

BestReturned == fn_pc = "returned" /\ fn_out.kind = "list"

ScoreAt(index) == fn_args.logits[index + 1]

\* C19: _get_best_indexes(scores, k) returns min(k, len(scores)) distinct
\* indices, by descending score and by ascending index among equal scores,
\* and no score left out is larger than a score returned
C19_BestIndexes ==
    BestReturned =>
        LET best == fn_out.best_indexes
            n == Len(fn_args.logits)
            returned == {best[i] : i \in DOMAIN best}
        IN /\ Len(best) = Min(fn_args.n_best_size, n)
           /\ returned \subseteq 0..(n - 1)
           /\ Cardinality(returned) = Len(best)
           /\ \A i \in 1..(Len(best) - 1) :
                 \/ ScoreAt(best[i]) > ScoreAt(best[i + 1])
                 \/ /\ ScoreAt(best[i]) = ScoreAt(best[i + 1])
                    /\ best[i] < best[i + 1]
           /\ \A r \in returned : \A u \in (0..(n - 1)) \ returned :
                 ScoreAt(r) >= ScoreAt(u)

\* a tie inside the returned indices and a tie across the cut
C19_Witness ==
    /\ BestReturned
    /\ fn_args.logits = <<1, 2, 1, 1>>
    /\ fn_args.n_best_size = 3
    /\ fn_out.best_indexes = <<1, 0, 2>>

------------------------------------------------------------------------------
(* C20: the null decision of postprocess_xlnet_answer                       *)

\* the valid candidates of the last example, as generated
LastXLNetCandidates == XLNetAllCandidates(LastFeatures, results, pp_args)

\* the minimum cls score over the features of the last example
LastClsScore ==
    SetMin({ResultOf(results, LastFeatures[i].unique_id).cls_logits :
               i \in DOMAIN LastFeatures})

LastXLNetBestScore ==
    SetMax({LastXLNetCandidates[k].key : k \in DOMAIN LastXLNetCandidates})

XLNetCandidateText(cand) ==
    XLNetFinalText(LastExample, LastFeatures[cand.feature_index + 1], cand,
                   [model_type |-> "xlnet", do_lower_case |-> pp_args.do_lower_case])

\* the last example went through postprocess_xlnet_answer with null answers
\* allowed and had a valid candidate
XLNetAnswered ==
    /\ LastOk
    /\ pp_args.fn = "xlnet"
    /\ pp_args.unanswerable_exists
    /\ LastXLNetCandidates # <<>>

PredictsBestXLNetCandidate ==
    \E k \in DOMAIN LastXLNetCandidates :
       /\ LastXLNetCandidates[k].key = LastXLNetBestScore
       /\ pp_last.prediction = XLNetCandidateText(LastXLNetCandidates[k])

\* C20 as stated: with null answers allowed, postprocess_xlnet_answer predicts
\* the empty string whenever the minimum cls score minus the best candidate's
\* start_score + end_score exceeds null_score_diff_threshold, and the best
\* candidate's text otherwise
C20_XLNetAppliesThreshold ==
    XLNetAnswered =>
        IF LastClsScore - LastXLNetBestScore > pp_args.null_score_diff_threshold
        THEN pp_last.prediction = <<>>
        ELSE PredictsBestXLNetCandidate

\* C20 amended: with null answers allowed, postprocess_xlnet_answer predicts
\* the best candidate's text whatever the cls score and
\* null_score_diff_threshold are, and records the minimum cls score of the
\* example as its score difference
C20_XLNetAlwaysPredictsBest ==
    XLNetAnswered =>
        /\ PredictsBestXLNetCandidate
        /\ pp_last.prediction # <<>>
        /\ pp_last.score_diff = Some(LastClsScore)

\* a text predicted although the cls score exceeds the best candidate's score
\* by more than the threshold
C20_Witness ==
    /\ XLNetAnswered
    /\ LastClsScore - LastXLNetBestScore > pp_args.null_score_diff_threshold
    /\ pp_last.prediction # <<>>

------------------------------------------------------------------------------
(* C21: the end of the span loop                                            *)

\* C21: whatever doc_stride and max_tokens_for_doc are, the span loop
\* terminates and its last DocSpan ends exactly at the final sub-word token
C21_SpanLoopTerminates ==
    /\ fn_pc # "hung"
    /\ SpansBuilt =>
          LET last == fn_out.doc_spans[Len(fn_out.doc_spans)]
          IN last.start + last.length = fn_args.n_doc

------------------------------------------------------------------------------
(* C22: what the max-context span maximises                                 *)

\* min(left context, right context) of a position inside a span
MinContext(doc_span, p) ==
    Min(p - doc_span.start, doc_span.start + doc_span.length - 1 - p)

\* C22: the span flagged as max context for a position attains the largest
\* min(left context, right context) among the spans holding the position, the
\* span length deciding only between spans of equal minimum
C22_FlaggedSpanHasLargestMinContext ==
    (fn_pc = "returned" /\ fn_out.kind = "list") =>
        \A p \in 0..(fn_args.n_doc - 1) :
            \A k \in Flagged(p) : \A j \in Holding(p) :
                MinContext(fn_out.doc_spans[k], p) >= MinContext(fn_out.doc_spans[j], p)

------------------------------------------------------------------------------
(* C23: start_position and end_position of a training feature              *)

CurTokenizer == TokenizerOf(cfg)
CurQueryLen == Len(QueryTokens(qa_example_cur, CurTokenizer, cfg.max_question_length))

\* tok_start_position and tok_end_position of the example of the last call
CurTokSpan ==
    AnswerTokSpan(qa_example_cur, CurTokenizer, SubTokens(qa_example_cur, CurTokenizer),
                  cfg.is_training)

InsideSpan(doc_span) ==
    /\ CurTokSpan[1][1] >= doc_span.start
    /\ CurTokSpan[2][1] <= doc_span.start + doc_span.length - 1

\* the positions of f that hold a paragraph token
ParagraphPositions(f) ==
    (Len(f.tokens) - f.paragraph_len - 1)..(Len(f.tokens) - 2)

------------------------------------------------------------------------------
(* C24: the unique_ids of one invocation                                    *)

\* C24: in emission order, every feature's unique_id is larger than the one
\* emitted before it (1000000000 for the first) by exactly 1 in training mode
\* and exactly 2 in inference mode
C24_UniqueIdSteps ==
    \A i \in DOMAIN features :
        features[i].unique_id
            = (IF i = 1 THEN 1000000000 ELSE features[i - 1].unique_id)
              + (IF cfg.is_training THEN 1 ELSE 2)

\* two records in inference mode: the second feature is numbered base + 4
C24_Witness ==
    /\ dl_pc = "returned"
    /\ ~cfg.is_training
    /\ Len(features) = 2
    /\ features[2].unique_id = 1000000004
    /\ unique_id_all = <<1000000002, 1000000004>>

------------------------------------------------------------------------------
(* C25: the non-null candidates of the extractive form                      *)

SeqSet(q) == {q[i] : i \in DOMAIN q}

LastResult(i) == ResultOf(results, LastFeatures[i].unique_id)

\* the top n_best_size start and end indices of feature i of the last example
TopStarts(i) == SeqSet(GetBestIndexes(LastResult(i).start_logits, pp_args.n_best_size))
TopEnds(i) == SeqSet(GetBestIndexes(LastResult(i).end_logits, pp_args.n_best_size))

\* the pairs the claim names, for a feature f
ValidPair(f, start, end) ==
    /\ start < Len(f.tokens)
    /\ end < Len(f.tokens)
    /\ ToString(start) \in DOMAIN f.token_to_orig_map
    /\ ToString(end) \in DOMAIN f.token_to_orig_map
    /\ ToString(start) \in DOMAIN f.token_is_max_context
    /\ f.token_is_max_context[ToString(start)]
    /\ end >= start
    /\ end - start + 1 <= pp_args.max_answer_length

\* the non-null entries of prelim_predictions
LastNonNull ==
    SelectSeq(pp_last.prelim_predictions, LAMBDA p : p.start_index # 0 \/ p.end_index # 0)

\* C25: the non-null candidates generated for the features of an example are
\* exactly the pairs of a top start index and a top end index that are below
\* len(tokens), keys of token_to_orig_map, with a max-context start,
\* end >= start and a length of at most max_answer_length, each once and with
\* its two logits
C25_BertCandidatesExact ==
    (LastOk /\ pp_args.fn = "bert") =>
        /\ {<<p.feature_index, p.start_index, p.end_index>> : p \in SeqSet(LastNonNull)}
              = {t \in UNION {{i - 1} \X TopStarts(i) \X TopEnds(i) :
                                  i \in DOMAIN LastFeatures} :
                    ValidPair(LastFeatures[t[1] + 1], t[2], t[3])}
        /\ Cardinality(SeqSet(LastNonNull)) = Len(LastNonNull)
        /\ Len(pp_last.prelim_predictions)
              = Len(LastNonNull) + (IF pp_args.unanswerable_exists THEN 1 ELSE 0)
        /\ \A p \in SeqSet(LastNonNull) :
              /\ p.start_logit = LastResult(p.feature_index + 1).start_logits[p.start_index + 1]
              /\ p.end_logit = LastResult(p.feature_index + 1).end_logits[p.end_index + 1]

\* two paragraph positions among the top indices, the pair of them too long
C25_Witness ==
    /\ LastOk
    /\ pp_args.fn = "bert"
    /\ pp_args.max_answer_length = 1
    /\ Len(LastNonNull) = 2
    /\ \E s \in TopStarts(1) : \E e \in TopEnds(1) :
          /\ e = s + 1
          /\ ToString(s) \in DOMAIN LastFeatures[1].token_to_orig_map
          /\ ToString(e) \in DOMAIN LastFeatures[1].token_to_orig_map

------------------------------------------------------------------------------
(* C26: the candidates of the top-k form                                    *)

\* the (start, end) pairs the nested loops read from the top-k lists of
\* feature i of the last example
TopKPairs(i) ==
    {<<LastResult(i).start_top_index[a + 1],
       LastResult(i).end_top_index[a * pp_args.n_best_size + b + 1]>> :
        a \in 0..(pp_args.n_best_size - 1), b \in 0..(pp_args.n_best_size - 1)}

\* the paragraph region: the positions with a token_to_orig_map entry
InParagraph(f, index) == ToString(index) \in DOMAIN f.token_to_orig_map

KeptByClaim(f, start, end) ==
    /\ InParagraph(f, start)
    /\ InParagraph(f, end)
    /\ ToString(start) \in DOMAIN f.token_is_max_context
    /\ f.token_is_max_context[ToString(start)]
    /\ end >= start
    /\ end - start + 1 <= pp_args.max_answer_length

\* C26: in postprocess_xlnet_answer a pair from the top-k index lists is kept
\* exactly when both indices lie in the paragraph region of the feature, the
\* start is flagged max-context, end >= start and the length is at most
\* max_answer_length; every kept candidate has a token_to_orig_map entry for
\* its start and its end
C26_XLNetCandidatesExact ==
    (LastOk /\ pp_args.fn = "xlnet") =>
        /\ {<<p.feature_index, p.start_index, p.end_index>> :
               p \in SeqSet(pp_last.prelim_predictions)}
              = {t \in UNION {{i - 1} \X TopKPairs(i) : i \in DOMAIN LastFeatures} :
                    KeptByClaim(LastFeatures[t[1] + 1], t[2][1], t[2][2])}
        /\ \A p \in SeqSet(pp_last.prelim_predictions) :
              /\ InParagraph(LastFeatures[p.feature_index + 1], p.start_index)
              /\ InParagraph(LastFeatures[p.feature_index + 1], p.end_index)

------------------------------------------------------------------------------
(* C27: the null candidate of the extractive form                           *)

NullSum(i) == LastResult(i).start_logits[1] + LastResult(i).end_logits[1]

\* the first feature of the last example with the smallest null score
MinNullFeature ==
    CHOOSE i \in DOMAIN LastFeatures :
        /\ \A j \in DOMAIN LastFeatures : NullSum(i) <= NullSum(j)
        /\ \A j \in 1..(i - 1) : NullSum(j) > NullSum(i)

LastNulls ==
    SelectSeq(pp_last.prelim_predictions, LAMBDA p : p.start_index = 0 /\ p.end_index = 0)

\* C27: with null answers allowed, postprocess_bert_answer adds exactly one
\* null candidate per example; its scores are start_logits[0] and
\* end_logits[0] of the first feature with the smallest start_logits[0] +
\* end_logits[0], and score_null is that smallest sum, whatever the logits are
C27_NullCandidateOfMinFeature ==
    (LastOk /\ pp_args.fn = "bert" /\ pp_args.unanswerable_exists) =>
        /\ Len(LastNulls) = 1
        /\ LastNulls[1].feature_index = MinNullFeature - 1
        /\ LastNulls[1].start_logit = LastResult(MinNullFeature).start_logits[1]
        /\ LastNulls[1].end_logit = LastResult(MinNullFeature).end_logits[1]
        /\ pp_last.score_null = NullSum(MinNullFeature)

------------------------------------------------------------------------------
(* C28: the layout of p_mask                                                *)

\* p_mask of f at the 0-based position p
PMaskAt(f, p) == f.p_mask[p + 1]

\* C28: in every feature p_mask is 0 exactly at the CLS position and at the
\* positions of paragraph sub-words, and 1 at every question sub-word, at
\* both [SEP] and at every padding position
C28_PMaskLayout ==
    features_cur.kind = "list" =>
        \A i \in DOMAIN features_cur.qa_features :
            LET f == features_cur.qa_features[i]
                n == Len(f.tokens)
            IN /\ \A p \in 0..(Len(f.p_mask) - 1) :
                     PMaskAt(f, p) = 0 <=>
                        (p = f.cls_index \/ p \in DOMAIN f.token_to_orig_map)
               /\ \A p \in 0..(Len(f.p_mask) - 1) : PMaskAt(f, p) \in {0, 1}
               /\ \A p \in 1..CurQueryLen : PMaskAt(f, p) = 1
               /\ PMaskAt(f, CurQueryLen + 1) = 1
               /\ f.tokens[CurQueryLen + 2] = sep_token
               /\ PMaskAt(f, n - 1) = 1
               /\ f.tokens[n] = sep_token
               /\ \A p \in n..(cfg.max_seq_len - 1) : PMaskAt(f, p) = 1
               /\ DOMAIN f.token_to_orig_map = ParagraphPositions(f)

\* a feature with a question, a paragraph and padding
C28_Witness ==
    /\ features_cur.kind = "list"
    /\ \E i \in DOMAIN features_cur.qa_features :
          LET f == features_cur.qa_features[i]
          IN /\ CurQueryLen >= 1
             /\ f.paragraph_len >= 2
             /\ Len(f.tokens) < cfg.max_seq_len
             /\ PMaskAt(f, 0) = 0
             /\ PMaskAt(f, CurQueryLen + 2) = 0

------------------------------------------------------------------------------
(* C29: the order of the n-best list                                        *)

NbestTotal(entry) == entry.start_logit + entry.end_logit

\* C29: the n-best list postprocess_bert_answer builds for an example is in
\* non-increasing order of start_logit + end_logit, the appended null entry
\* and the inserted "empty" placeholder included, so that its first entry has
\* the highest total
C29_NbestNonIncreasing ==
    (LastOk /\ pp_args.fn = "bert") =>
        /\ \A i \in 1..(Len(pp_last.nbest_json) - 1) :
              NbestTotal(pp_last.nbest_json[i]) >= NbestTotal(pp_last.nbest_json[i + 1])
        /\ \A i \in DOMAIN pp_last.nbest_json :
              NbestTotal(pp_last.nbest_json[1]) >= NbestTotal(pp_last.nbest_json[i])

------------------------------------------------------------------------------
(* C30: what _create_qa_features returns for a document without tokens      *)

\* the record of the last iteration has a document without sub-word tokens
CurDocHasNoTokens ==
    /\ qa_example_cur.kind = "example"
    /\ SubTokens(qa_example_cur, TokenizerOf(cfg)).all_doc_tokens = <<>>

\* C30: whenever _create_qa_features returns, it returns a list of features,
\* also for an example whose document yields no sub-word token, and
\* get_qa_dataloader appends it without raising
C30_FeaturesAlwaysAList ==
    /\ features_cur.kind # "None"
    /\ CurDocHasNoTokens => (features_cur.kind = "list" /\ dl_pc # "raised")
    /\ ~(dl_pc = "raised" /\ dl_exc = "TypeError")

====
